---- MODULE Spec2Model ----
(***************************************************************************)
(* A model of claude_teams: the file-backed task engine (tasks.py) and the *)
(* per-agent inboxes (messaging.py).                                       *)
(*                                                                         *)
(* Two specifications share the module:                                    *)
(*   Spec       the task engine of one team.  Every operation of tasks.py  *)
(*              that writes runs wholly inside `with file_lock(lock_path)` *)
(*              on tasks/<team>/.lock, so the operations of several        *)
(*              processes are serialised and each is one action.           *)
(*   SpecInbox  the inboxes of one team, several processes, one step per   *)
(*              file-system or lock operation, because ensure_inbox and    *)
(*              the existence test of read_inbox run outside the lock.     *)
(***************************************************************************)
EXTENDS Integers, Sequences, FiniteSets, TLC

\* ------------------------------------------------------------------ bounds
\* Largest task id create_task may hand out in a checked run.
MaxId == 3

Ids == 1..MaxId

\* The most ids one update_task request lists in add_blocks and
\* add_blocked_by together.
MaxAdd == 2

\* "none" stands for Python's None (argument not supplied / field absent).
None == "none"

\* The owner arguments of the requests of Spec: none is supplied.  update_task
\* copies a supplied owner into the task and reads it nowhere, so the edges
\* and the statuses of Spec do not depend on it.
OwnerArgs == {None}

\* ------------------------------------------------------------------ state
VARIABLES
    tasks,       \* tasks/<team>/<id>.json: id -> TaskFile, DOMAIN = existing files
    assignedIds, \* history: every id create_task has assigned so far
    created      \* history: the id the last step's create_task assigned, else 0

VARIABLES
    inbox,     \* inbox file -> its content
    ilock,     \* holder of teams/<team>/inboxes/.lock, 0 when free
    pc,        \* process -> the step of its current call it is about to take
    call,      \* process -> the arguments of its current call
    raw_list,  \* process -> the list its call read from the file
    result,    \* process -> the list its read_inbox call is about to return
    nextMsg,   \* the id the next appended message gets
    returned,  \* history: ids of the messages whose append_message returned
    seenRead,  \* history: ids of the messages a file has held with read = true
    delivered  \* history: ids of the messages that reading calls returned

VARIABLES
    config,    \* teams/<team>/config.json: its content
    sessions,  \* the sessions that exist on the opencode server
    panes,     \* the multiplexer targets that were launched and not killed
    inboxes,   \* agent -> the messages of its inbox, one step per append_message
    clock,     \* time.time() in milliseconds
    tpc,       \* process -> the step of its team operation it is about to take
    tcall,     \* process -> the arguments of its team operation
    local,     \* process -> the local variables of its team operation
    hist       \* history of the team operations that completed

VARIABLES
    active_team,   \* server session -> the active_team of its lifespan state
    lead_sessions, \* team -> leadSessionId of its config.json, None without one
    tmp_files      \* teams/<team>/*.tmp: name -> content, DOMAIN = existing files

tvars == <<tasks, assignedIds, created>>

cvars == <<config, sessions, panes, inboxes, clock, tpc, tcall, local, hist>>

ivars == <<inbox, ilock, pc, call, raw_list, result, nextMsg, returned, seenRead,
          delivered>>

svars == <<active_team, lead_sessions, tmp_files>>

vars == <<tasks, assignedIds, created, inbox, ilock, pc, call, raw_list, result,
          nextMsg, returned, seenRead, delivered, config, sessions, panes, inboxes, clock,
          tpc, tcall, local, hist, active_team, lead_sessions, tmp_files>>

\* ------------------------------------------------------------ task engine
\* _STATUS_ORDER; the rank of a status update_task does not know is None (-1).
STATUS_ORDER(s) ==
    CASE s = "pending" -> 0
      [] s = "in_progress" -> 1
      [] s = "completed" -> 2
      [] OTHER -> -1

\* The status values a request may carry: the four of TaskFile.status, one
\* unknown to _STATUS_ORDER, or None.
StatusArgs == {None, "pending", "in_progress", "completed", "deleted", "bogus"}

\* TaskFile as create_task builds it.  blocks and blocked_by are lists in the
\* code; every append is guarded by a membership test and remove() is only
\* used on them, so they never hold a duplicate and are modelled as sets.
NewTaskFile ==
    [status |-> "pending", blocks |-> {}, blocked_by |-> {}, owner |-> None]

\* An ascending enumeration of a finite set of integers (iteration order of
\* the queue.extend calls; the result of the walk does not depend on it).
RECURSIVE SetToSeq(_)
SetToSeq(S) ==
    IF S = {} THEN <<>>
    ELSE LET m == CHOOSE x \in S : \A y \in S : x <= y
         IN <<m>> \o SetToSeq(S \ {m})

\* pending_edges.get(current, set())
PendingGet(pending_edges, current) ==
    IF current \in DOMAIN pending_edges THEN pending_edges[current] ELSE {}

\* The while loop of _would_create_cycle: breadth-first from the queue through
\* blocked_by on disk and the pending edges, looking for from_id.
RECURSIVE CycleWalk(_, _, _, _, _)
CycleWalk(files, from_id, queue, visited, pending_edges) ==
    IF queue = <<>> THEN FALSE
    ELSE LET current == Head(queue)
             rest == Tail(queue)
         IN IF current = from_id THEN TRUE
            ELSE IF current \in visited
                 THEN CycleWalk(files, from_id, rest, visited, pending_edges)
                 ELSE LET v2 == visited \cup {current}
                          disk == IF current \in DOMAIN files
                                  THEN {d \in files[current].blocked_by : d \notin v2}
                                  ELSE {}
                          pend == {d \in PendingGet(pending_edges, current) : d \notin v2}
                      IN CycleWalk(files, from_id,
                                   rest \o SetToSeq(disk) \o SetToSeq(pend),
                                   v2, pending_edges)

\* A walk that reads only the files and forgets the edges of the same request.
would_create_cycle_disk_only(files, from_id, to_id, pending_edges) ==
    CycleWalk(files, from_id, <<to_id>>, {}, [x \in {} |-> {}])

\* _would_create_cycle: making from_id blocked_by to_id closes a cycle.
would_create_cycle(files, from_id, to_id, pending_edges) ==
    CycleWalk(files, from_id, <<to_id>>, {}, pending_edges)

\* A successor computed from the number of files instead of the largest id.
next_task_id_by_count(files) ==
    Cardinality(DOMAIN files) + 1

\* next_task_id: max(existing numeric ids) + 1, or 1.
next_task_id(files) ==
    IF DOMAIN files = {} THEN 1
    ELSE (CHOOSE m \in DOMAIN files : \A x \in DOMAIN files : x <= m) + 1

\* pending_edges as update_task builds it in phase 2:
\* b -> {task_id} for b in add_blocks, task_id -> add_blocked_by.
PendingEdges(task_id, add_blocks, add_blocked_by) ==
    [x \in add_blocks \cup (IF add_blocked_by = {} THEN {} ELSE {task_id}) |->
        (IF x \in add_blocks THEN {task_id} ELSE {})
        \cup (IF x = task_id THEN add_blocked_by ELSE {})]

\* A rank test that lets every transition pass.
RankAllowedAlways(cur_status, status) == TRUE

\* The rank test of phase 2: new_order < cur_order is rejected.
RankAllowed(cur_status, status) ==
    ~(STATUS_ORDER(status) < STATUS_ORDER(cur_status))

\* A blocker test that lets every blocker pass.
BlockersCompletedAlways(files, effective_blocked_by) == TRUE

\* The blocker test of phase 2: every blocker whose file exists is completed.
BlockersCompleted(files, effective_blocked_by) ==
    \A blocker_id \in effective_blocked_by :
        blocker_id \in DOMAIN files => files[blocker_id].status = "completed"

\* Phase 2 of update_task, the first failing validation ("ok" when none
\* fails).  Within one list the code raises at the first offending element;
\* with the lists as sets a request holding both a self reference and a
\* missing reference is reported as "self".
Validate(files, task_id, status, add_blocks, add_blocked_by) ==
    LET task == files[task_id]
        pending_edges == PendingEdges(task_id, add_blocks, add_blocked_by)
        effective_blocked_by == task.blocked_by \cup add_blocked_by
    IN  IF task_id \in add_blocks \cup add_blocked_by THEN "self"
        ELSE IF \E b \in add_blocks \cup add_blocked_by : b \notin DOMAIN files
             THEN "missing_ref"
        ELSE IF \/ \E b \in add_blocks :
                      would_create_cycle(files, b, task_id, pending_edges)
                \/ \E b \in add_blocked_by :
                      would_create_cycle(files, task_id, b, pending_edges)
             THEN "cycle"
        ELSE IF status = None \/ status = "deleted" THEN "ok"
        ELSE IF STATUS_ORDER(status) = -1 THEN "invalid_status"
        ELSE IF ~RankAllowed(task.status, status) THEN "rank"
        ELSE IF /\ status \in {"in_progress", "completed"}
                /\ ~BlockersCompleted(files, effective_blocked_by)
             THEN "blocked"
        ELSE "ok"

\* The sibling `other` after the edge additions of phase 3 (pending_writes).
StagedEdges(files, f, task_id, add_blocks, add_blocked_by) ==
    [files[f] EXCEPT
        !.blocked_by = IF f \in add_blocks THEN @ \cup {task_id} ELSE @,
        !.blocks     = IF f \in add_blocked_by THEN @ \cup {task_id} ELSE @]

\* A completion that leaves the siblings as they are.
CompletedCascadeNone(other, task_id) == other

\* The cascade of status=completed on one sibling: task_id leaves blocked_by.
CompletedCascade(other, task_id) ==
    [other EXCEPT !.blocked_by = @ \ {task_id}]

\* A deletion that strips blocked_by only.
DeletedCascadeBlockedByOnly(other, task_id) ==
    [other EXCEPT !.blocked_by = @ \ {task_id}]

\* The cascade of status=deleted on one sibling: task_id leaves both lists.
DeletedCascade(other, task_id) ==
    [other EXCEPT !.blocked_by = @ \ {task_id}, !.blocks = @ \ {task_id}]

\* Phases 3 and 4 of update_task on a validated request: the files afterwards.
Mutate(files, task_id, status, owner, add_blocks, add_blocked_by) ==
    LET task == files[task_id]
        newTask == [status     |-> IF status = None THEN task.status ELSE status,
                    blocks     |-> task.blocks \cup add_blocks,
                    blocked_by |-> task.blocked_by \cup add_blocked_by,
                    owner      |-> IF owner = None THEN task.owner ELSE owner]
        Sibling(f) ==
            LET other == StagedEdges(files, f, task_id, add_blocks, add_blocked_by)
            IN  IF status = "completed" THEN CompletedCascade(other, task_id)
                ELSE IF status = "deleted" THEN DeletedCascade(other, task_id)
                ELSE other
    IN  IF status = "deleted"
        THEN [f \in DOMAIN files \ {task_id} |-> Sibling(f)]
        ELSE [f \in DOMAIN files |-> IF f = task_id THEN newTask ELSE Sibling(f)]

\* A transaction that writes the staged edges before it looks for a cycle.
update_task_write_first(files, task_id, status, owner, add_blocks, add_blocked_by) ==
    IF task_id \notin DOMAIN files
    THEN [err |-> "no_task", files |-> files]
    ELSE LET err == Validate(files, task_id, status, add_blocks, add_blocked_by)
         IN  IF err = "ok"
             THEN [err |-> "ok",
                   files |-> Mutate(files, task_id, status, owner,
                                    add_blocks, add_blocked_by)]
             ELSE IF err = "cycle"
             THEN [err |-> err,
                   files |-> Mutate(files, task_id, None, None,
                                    add_blocks, add_blocked_by)]
             ELSE [err |-> err, files |-> files]

\* update_task inside the lock: read, validate, mutate, write.  The result is
\* the error ("ok" on success; "no_task" when the read of phase 1 raises) and
\* the task files afterwards.
update_task(files, task_id, status, owner, add_blocks, add_blocked_by) ==
    IF task_id \notin DOMAIN files
    THEN [err |-> "no_task", files |-> files]
    ELSE LET err == Validate(files, task_id, status, add_blocks, add_blocked_by)
         IN  IF err = "ok"
             THEN [err |-> "ok",
                   files |-> Mutate(files, task_id, status, owner,
                                    add_blocks, add_blocked_by)]
             ELSE [err |-> err, files |-> files]

\* A reset that sends the completed tasks of the agent back to pending too.
reset_owner_tasks_all_pending(files, agent_name) ==
    [f \in DOMAIN files |->
        IF files[f].owner = agent_name
        THEN [files[f] EXCEPT !.status = "pending", !.owner = None]
        ELSE files[f]]

\* reset_owner_tasks inside the lock.
reset_owner_tasks(files, agent_name) ==
    [f \in DOMAIN files |->
        IF files[f].owner = agent_name
        THEN [files[f] EXCEPT
                 !.status = IF @ # "completed" THEN "pending" ELSE @,
                 !.owner = None]
        ELSE files[f]]

\* The update_task requests of a checked run: any target id (existing or
\* not), any status argument, and edge lists of at most MaxAdd ids together
\* (self and missing references included).
Requests ==
    {req \in [task_id : Ids, status : StatusArgs, owner : OwnerArgs,
              add_blocks : SUBSET Ids, add_blocked_by : SUBSET Ids] :
        Cardinality(req.add_blocks) + Cardinality(req.add_blocked_by) <= MaxAdd}

TasksInit ==
    /\ tasks = [x \in {} |-> NewTaskFile]
    /\ assignedIds = {}
    /\ created = 0

\* create_task with a non-empty subject on an existing team.
CreateTask ==
    LET task_id == next_task_id(tasks)
    IN  /\ task_id <= MaxId
        /\ tasks' = [f \in DOMAIN tasks \cup {task_id} |->
                        IF f = task_id THEN NewTaskFile ELSE tasks[f]]
        /\ created' = task_id
        /\ assignedIds' = assignedIds \cup {task_id}
        /\ UNCHANGED <<ivars, cvars, svars>>

\* One update_task call.
UpdateTask(task_id, status, owner, add_blocks, add_blocked_by) ==
    LET r == update_task(tasks, task_id, status, owner, add_blocks, add_blocked_by)
    IN  /\ tasks' = r.files
        /\ created' = 0
        /\ UNCHANGED <<assignedIds, ivars, cvars, svars>>

\* One reset_owner_tasks call (no step of Spec, whose tasks have no owner).
ResetOwnerTasks(agent_name) ==
    /\ tasks' = reset_owner_tasks(tasks, agent_name)
    /\ created' = 0
    /\ UNCHANGED <<assignedIds, ivars, cvars, svars>>

TasksNext ==
    \/ CreateTask
    \/ \E req \in Requests :
          UpdateTask(req.task_id, req.status, req.owner, req.add_blocks, req.add_blocked_by)

\* ---------------------------------------------------------------- inboxes
\* Number of processes that call into messaging.py concurrently.
NumProcs == 2

\* Number of append_message calls started in a checked run.
MaxMsgs == 2

Procs == 1..NumProcs

\* The inbox files of the team; all of them share teams/<team>/inboxes/.lock.
Inboxes == {"alice", "bob"}

\* Contents of an inbox path other than a JSON array: no file; a file of zero
\* bytes (opened for writing, nothing written yet); bytes json.loads rejects.
NoFile == [kind |-> "no_file", msgs |-> <<>>]
ZeroBytes == [kind |-> "zero_bytes", msgs |-> <<>>]
Garbage == [kind |-> "garbage", msgs |-> <<>>]

\* A file holding the JSON array of the messages msgs.
List(msgs) == [kind |-> "list", msgs |-> msgs]

IsList(content) == content.kind = "list"

\* The ids of the messages of a file content.
MsgIds(content) ==
    {content.msgs[i].id : i \in 1..Len(content.msgs)}

\* The ids of the messages of a file content whose read flag is true.
ReadIds(content) ==
    {content.msgs[i].id : i \in {j \in 1..Len(content.msgs) : content.msgs[j].read}}

Idle == [op |-> "idle", agent |-> None, unread_only |-> FALSE,
         mark_as_read |-> FALSE, msg |-> 0]

InboxInit ==
    /\ inbox = [a \in Inboxes |-> NoFile]
    /\ ilock = 0
    /\ pc = [p \in Procs |-> "idle"]
    /\ call = [p \in Procs |-> Idle]
    /\ raw_list = [p \in Procs |-> <<>>]
    /\ result = [p \in Procs |-> <<>>]
    /\ nextMsg = 1
    /\ returned = {}
    /\ seenRead = {}
    /\ delivered = [once |-> {}, again |-> {}]

\* What path.write_text("[]") leaves once its bytes are written.  The file was
\* truncated when it was opened; a list another process wrote since then is
\* longer than the two bytes, which overwrite its head.
InitBytesWritten(content) ==
    IF content = ZeroBytes \/ content = List(<<>>) THEN List(<<>>) ELSE Garbage

\* A process enters append_message(team, agent, message).
StartAppend(p, agent) ==
    /\ pc[p] = "idle"
    /\ nextMsg <= MaxMsgs
    /\ call' = [call EXCEPT ![p] = [Idle EXCEPT !.op = "append", !.agent = agent,
                                                !.msg = nextMsg]]
    /\ nextMsg' = nextMsg + 1
    /\ pc' = [pc EXCEPT ![p] = "a_exists"]
    /\ UNCHANGED <<inbox, ilock, raw_list, returned, result, seenRead, delivered, tvars, cvars, svars>>

\* ensure_inbox: `if not path.exists()`.
AppendExists(p) ==
    /\ pc[p] = "a_exists"
    /\ pc' = [pc EXCEPT ![p] = IF inbox[call[p].agent] = NoFile
                               THEN "a_open" ELSE "a_lock"]
    /\ UNCHANGED <<inbox, ilock, call, raw_list, nextMsg, returned, result, seenRead, delivered, tvars, cvars, svars>>

\* ensure_inbox: path.write_text("[]") opens the file, which truncates it.
AppendOpen(p) ==
    /\ pc[p] = "a_open"
    /\ inbox' = [inbox EXCEPT ![call[p].agent] = ZeroBytes]
    /\ pc' = [pc EXCEPT ![p] = "a_init"]
    /\ UNCHANGED <<ilock, call, raw_list, nextMsg, returned, result, seenRead, delivered, tvars, cvars, svars>>

\* ensure_inbox: path.write_text("[]") writes its two bytes.
AppendInit(p) ==
    /\ pc[p] = "a_init"
    /\ inbox' = [inbox EXCEPT ![call[p].agent] = InitBytesWritten(@)]
    /\ pc' = [pc EXCEPT ![p] = "a_lock"]
    /\ UNCHANGED <<ilock, call, raw_list, nextMsg, returned, result, seenRead, delivered, tvars, cvars, svars>>

\* A lock step that does not wait for the lock and does not take it.
AcquireNoLock(p, from, to) ==
    /\ pc[p] = from
    /\ pc' = [pc EXCEPT ![p] = to]
    /\ UNCHANGED <<inbox, ilock, call, raw_list, nextMsg, returned, result, seenRead, delivered, tvars, cvars, svars>>

\* `with file_lock(lock_path)`: blocks until the lock is free, then holds it.
Acquire(p, from, to) ==
    /\ pc[p] = from
    /\ ilock = 0
    /\ ilock' = p
    /\ pc' = [pc EXCEPT ![p] = to]
    /\ UNCHANGED <<inbox, call, raw_list, nextMsg, returned, result, seenRead, delivered, tvars, cvars, svars>>

\* An append that goes on to read without taking the lock.
AppendLockSkipped(p) == AcquireNoLock(p, "a_lock", "a_read")

\* append_message: `with file_lock(lock_path)`, after ensure_inbox returned.
AppendLock(p) == Acquire(p, "a_lock", "a_read")

\* append_message: raw_list = json.loads(path.read_text()); a file that is no
\* JSON array raises inside the with block.
AppendRead(p) ==
    /\ pc[p] = "a_read"
    /\ IF IsList(inbox[call[p].agent])
       THEN /\ raw_list' = [raw_list EXCEPT ![p] = inbox[call[p].agent].msgs]
            /\ pc' = [pc EXCEPT ![p] = "a_write"]
       ELSE /\ raw_list' = raw_list
            /\ pc' = [pc EXCEPT ![p] = "raise"]
    /\ UNCHANGED <<inbox, ilock, call, nextMsg, returned, result, seenRead, delivered, tvars, cvars, svars>>

\* An append that puts the message in front of the list it read.
AppendWriteFront(p) ==
    /\ pc[p] = "a_write"
    /\ inbox' = [inbox EXCEPT ![call[p].agent] =
                    List(<<[id |-> call[p].msg, read |-> FALSE]>> \o raw_list[p])]
    /\ seenRead' = seenRead \cup ReadIds(inbox'[call[p].agent])
    /\ pc' = [pc EXCEPT ![p] = "a_unlock"]
    /\ UNCHANGED <<ilock, call, raw_list, nextMsg, returned, result, delivered, tvars, cvars, svars>>

\* append_message: raw_list.append(message); path.write_text(json.dumps(raw_list)).
AppendWrite(p) ==
    /\ pc[p] = "a_write"
    /\ inbox' = [inbox EXCEPT ![call[p].agent] =
                    List(Append(raw_list[p], [id |-> call[p].msg, read |-> FALSE]))]
    /\ seenRead' = seenRead \cup ReadIds(inbox'[call[p].agent])
    /\ pc' = [pc EXCEPT ![p] = "a_unlock"]
    /\ UNCHANGED <<ilock, call, raw_list, nextMsg, returned, result, delivered, tvars, cvars, svars>>

\* append_message leaves the with block and returns.
AppendUnlock(p) ==
    /\ pc[p] = "a_unlock"
    /\ ilock' = 0
    /\ returned' = returned \cup {call[p].msg}
    /\ pc' = [pc EXCEPT ![p] = "idle"]
    /\ call' = [call EXCEPT ![p] = Idle]
    /\ raw_list' = [raw_list EXCEPT ![p] = <<>>]
    /\ UNCHANGED <<inbox, nextMsg, result, seenRead, delivered, tvars, cvars, svars>>

\* An exception leaves the with block: the lock is released, the call fails.
Raise(p) ==
    /\ pc[p] = "raise"
    /\ ilock' = 0
    /\ pc' = [pc EXCEPT ![p] = "idle"]
    /\ call' = [call EXCEPT ![p] = Idle]
    /\ raw_list' = [raw_list EXCEPT ![p] = <<>>]
    /\ result' = [result EXCEPT ![p] = <<>>]
    /\ UNCHANGED <<inbox, nextMsg, returned, seenRead, delivered, tvars, cvars, svars>>

\* A process enters read_inbox(team, agent, unread_only, mark_as_read).
StartRead(p, agent, unread_only, mark_as_read) ==
    /\ pc[p] = "idle"
    /\ call' = [call EXCEPT ![p] = [op |-> "read", agent |-> agent,
                                    unread_only |-> unread_only,
                                    mark_as_read |-> mark_as_read, msg |-> 0]]
    /\ pc' = [pc EXCEPT ![p] = "r_exists"]
    /\ UNCHANGED <<inbox, ilock, raw_list, nextMsg, returned, result, seenRead, delivered, tvars, cvars, svars>>

\* read_inbox: `if not path.exists(): return []`, else one of the two branches.
ReadExists(p) ==
    /\ pc[p] = "r_exists"
    /\ IF inbox[call[p].agent] = NoFile
       THEN /\ pc' = [pc EXCEPT ![p] = "idle"]
            /\ call' = [call EXCEPT ![p] = Idle]
       ELSE /\ pc' = [pc EXCEPT ![p] = IF call[p].mark_as_read
                                       THEN "r_lock" ELSE "r_plain"]
            /\ call' = call
    /\ UNCHANGED <<inbox, ilock, raw_list, nextMsg, returned, result, seenRead, delivered, tvars, cvars, svars>>

\* A result that holds the read messages too.
ResultAll(all_msgs, unread_only) == all_msgs

\* result: all messages, or the unread ones.
Result(all_msgs, unread_only) ==
    IF unread_only THEN SelectSeq(all_msgs, LAMBDA m : ~m.read) ELSE all_msgs

\* read_inbox, mark_as_read false: one read without the lock that determines
\* the list to return (or raises when the bytes are no JSON array).
ReadPlain(p) ==
    /\ pc[p] = "r_plain"
    /\ IF IsList(inbox[call[p].agent])
       THEN /\ result' = [result EXCEPT ![p] =
                            Result(inbox[call[p].agent].msgs, call[p].unread_only)]
            /\ pc' = [pc EXCEPT ![p] = "r_done"]
            /\ call' = call
       ELSE /\ result' = result
            /\ pc' = [pc EXCEPT ![p] = "idle"]
            /\ call' = [call EXCEPT ![p] = Idle]
    /\ UNCHANGED <<inbox, ilock, raw_list, nextMsg, returned, seenRead, delivered, tvars, cvars, svars>>

\* read_inbox, mark_as_read false: the return.
ReadReturn(p) ==
    /\ pc[p] = "r_done"
    /\ pc' = [pc EXCEPT ![p] = "idle"]
    /\ call' = [call EXCEPT ![p] = Idle]
    /\ result' = [result EXCEPT ![p] = <<>>]
    /\ UNCHANGED <<inbox, ilock, raw_list, nextMsg, returned, seenRead, delivered, tvars, cvars, svars>>

\* A mark-as-read that goes on to read without taking the lock.
ReadLockSkipped(p) == AcquireNoLock(p, "r_lock", "r_read")

\* read_inbox, mark_as_read true: `with file_lock(lock_path)`.
ReadLock(p) == Acquire(p, "r_lock", "r_read")

\* read_inbox under the lock: read, determine the result; an empty result
\* skips the rewrite.
ReadRead(p) ==
    /\ pc[p] = "r_read"
    /\ IF IsList(inbox[call[p].agent])
       THEN /\ raw_list' = [raw_list EXCEPT ![p] = inbox[call[p].agent].msgs]
            /\ result' = [result EXCEPT ![p] =
                            Result(inbox[call[p].agent].msgs, call[p].unread_only)]
            /\ pc' = [pc EXCEPT ![p] =
                        IF Result(inbox[call[p].agent].msgs, call[p].unread_only) # <<>>
                        THEN "r_write" ELSE "r_unlock"]
       ELSE /\ raw_list' = raw_list
            /\ result' = result
            /\ pc' = [pc EXCEPT ![p] = "raise"]
    /\ UNCHANGED <<inbox, ilock, call, nextMsg, returned, seenRead, delivered, tvars, cvars, svars>>

\* all_msgs after `for m in all_msgs: if m in result: m.read = True`.  Every
\* message of the result is flipped; a message outside the result (already
\* read, unread_only) equals no unread message and keeps read = True.
Marked(all_msgs) ==
    [i \in 1..Len(all_msgs) |-> [all_msgs[i] EXCEPT !.read = TRUE]]

\* A rewrite that keeps the messages of the result only.
ReadWriteResultOnly(p) ==
    /\ pc[p] = "r_write"
    /\ inbox' = [inbox EXCEPT ![call[p].agent] =
                    List(Marked(result[p]))]
    /\ result' = [result EXCEPT ![p] = Marked(@)]
    /\ seenRead' = seenRead \cup ReadIds(inbox'[call[p].agent])
    /\ pc' = [pc EXCEPT ![p] = "r_unlock"]
    /\ UNCHANGED <<ilock, call, raw_list, nextMsg, returned, delivered, tvars, cvars, svars>>

\* read_inbox under the lock: the flip loop, then
\* path.write_text(json.dumps(serialized)).  result holds the very objects of
\* all_msgs that the loop assigns to, so its messages are flipped with them.
ReadWrite(p) ==
    /\ pc[p] = "r_write"
    /\ inbox' = [inbox EXCEPT ![call[p].agent] =
                    List(Marked(raw_list[p]))]
    /\ result' = [result EXCEPT ![p] = Marked(@)]
    /\ seenRead' = seenRead \cup ReadIds(inbox'[call[p].agent])
    /\ pc' = [pc EXCEPT ![p] = "r_unlock"]
    /\ UNCHANGED <<ilock, call, raw_list, nextMsg, returned, delivered, tvars, cvars, svars>>

\* The history once a read_inbox(unread_only=True, mark_as_read=True) has
\* returned the given messages: those returned once, and those among them
\* that such a call had returned before.
Delivered(msgs) ==
    LET ids == {msgs[i].id : i \in 1..Len(msgs)}
    IN  [once |-> delivered.once \cup ids,
         again |-> delivered.again \cup (ids \cap delivered.once)]

\* read_inbox leaves the with block and returns its result.
ReadUnlock(p) ==
    /\ pc[p] = "r_unlock"
    /\ ilock' = 0
    /\ pc' = [pc EXCEPT ![p] = "idle"]
    /\ call' = [call EXCEPT ![p] = Idle]
    /\ raw_list' = [raw_list EXCEPT ![p] = <<>>]
    /\ result' = [result EXCEPT ![p] = <<>>]
    /\ delivered' = IF call[p].unread_only /\ call[p].mark_as_read
                    THEN Delivered(result[p]) ELSE delivered
    /\ UNCHANGED <<inbox, nextMsg, returned, seenRead, tvars, cvars, svars>>

InboxNext ==
    \E p \in Procs :
        \/ \E agent \in Inboxes : StartAppend(p, agent)
        \/ AppendExists(p)
        \/ AppendOpen(p)
        \/ AppendInit(p)
        \/ AppendLock(p)
        \/ AppendRead(p)
        \/ AppendWrite(p)
        \/ AppendUnlock(p)
        \/ Raise(p)
        \/ \E agent \in Inboxes, unread_only \in BOOLEAN, mark_as_read \in BOOLEAN :
              StartRead(p, agent, unread_only, mark_as_read)
        \/ ReadExists(p)
        \/ ReadPlain(p)
        \/ ReadReturn(p)
        \/ ReadLock(p)
        \/ ReadRead(p)
        \/ ReadWrite(p)
        \/ ReadUnlock(p)

\* No call is in progress.
AllIdle == \A q \in Procs : pc[q] = "idle"

\* append_message is called while no other call is in progress.
SerialStartAppend(p, agent) == AllIdle /\ StartAppend(p, agent)

\* read_inbox is called while no other call is in progress.
SerialStartRead(p, agent, unread_only, mark_as_read) ==
    AllIdle /\ StartRead(p, agent, unread_only, mark_as_read)

\* The calls of a sequence, one after the other.
InboxSerialNext ==
    \E p \in Procs :
        \/ \E agent \in Inboxes : SerialStartAppend(p, agent)
        \/ AppendExists(p)
        \/ AppendOpen(p)
        \/ AppendInit(p)
        \/ AppendLock(p)
        \/ AppendRead(p)
        \/ AppendWrite(p)
        \/ AppendUnlock(p)
        \/ \E agent \in Inboxes, unread_only \in BOOLEAN, mark_as_read \in BOOLEAN :
              SerialStartRead(p, agent, unread_only, mark_as_read)
        \/ ReadExists(p)
        \/ ReadPlain(p)
        \/ ReadReturn(p)
        \/ ReadLock(p)
        \/ ReadRead(p)
        \/ ReadWrite(p)
        \/ ReadUnlock(p)

\* ------------------------------------------------------------------ teams
\* Number of team operations started in a checked run.  A spawn_teammate
\* that is the nth of them gets the session id n and the target id n, if it
\* gets one.
MaxOps == 3

\* len(COLOR_PALETTE).
PaletteSize == 8

\* The names teammates are given.
Names == Inboxes

\* The lead as create_team builds it (tmux_pane_id "" is 0; the fields that
\* only a teammate has hold None / 0).
LeadMember ==
    [name |-> "team-lead", teammate |-> FALSE, color |-> 0, tmux_pane_id |-> 0,
     backend_type |-> None, opencode_session_id |-> 0]

\* The teammate as spawn_teammate builds it: tmux_pane_id "" (0), and
\* opencode_session_id None (0) unless a session was created.
TeammateMember(name, color, backend_type, opencode_session_id) ==
    [name |-> name, teammate |-> TRUE, color |-> color, tmux_pane_id |-> 0,
     backend_type |-> backend_type, opencode_session_id |-> opencode_session_id]

\* Contents of config.json: no file; a file opened for writing that holds no
\* byte yet; the JSON of a TeamConfig with the given members.
NoConfig == [kind |-> "no_file", members |-> <<>>]
TruncatedConfig == [kind |-> "zero_bytes", members |-> <<>>]
TeamConfig(members) == [kind |-> "config", members |-> members]

\* read_config returns a TeamConfig (else it raises).
Readable(content) == content.kind = "config"

\* {m.name for m in config.members}
MemberNames(members) == {members[i].name : i \in 1..Len(members)}

\* The first teammate of the given name, as a set of at most one index.
FindTeammate(members, name) ==
    LET hits == {i \in 1..Len(members) :
                    members[i].teammate /\ members[i].name = name}
    IN  IF hits = {} THEN {} ELSE {CHOOSE i \in hits : \A j \in hits : i <= j}

NoCall ==
    [op |-> "idle", name |-> None, backend_type |-> None, oc |-> FALSE,
     request_id |-> None, approve |-> FALSE,
     task_id |-> 0, status |-> None, owner |-> None, session |-> None,
     sender |-> None, content |-> "", summary |-> ""]

NoLocal ==
    [config |-> <<>>, member |-> LeadMember, member_added |-> FALSE,
     n |-> 0, session |-> 0, pane |-> 0, task |-> NewTaskFile,
     fd |-> -1, tmp_path |-> 0, released |-> FALSE, attempt |-> 0, win32 |-> FALSE,
     pending_writes |-> <<>>, listing |-> {}, listed |-> <<>>,
     tasks_lock |-> FALSE]

TeamInit ==
    /\ config = NoConfig
    /\ sessions = {}
    /\ panes = {}
    /\ inboxes = [a \in Names \cup {"team-lead"} |-> <<>>]
    /\ clock = 0
    /\ tpc = [p \in Procs |-> "idle"]
    /\ tcall = [p \in Procs |-> NoCall]
    /\ local = [p \in Procs |-> NoLocal]
    /\ hist = [nops |-> 0, nspawned |-> 0,
               pre |-> [config |-> NoConfig, sessions |-> {}]]
    /\ tmp_files = <<>>

\* No team operation is in progress.
TeamIdle == \A q \in Procs : tpc[q] = "idle"

\* The history once one more operation has started: their number, the number
\* of spawn_teammate calls that returned a member of the present config, and
\* what config.json and the opencode server held when an operation last
\* started while no other one was in progress.
Started ==
    [nops |-> hist.nops + 1,
     nspawned |-> hist.nspawned,
     pre |-> IF TeamIdle THEN [config |-> config, sessions |-> sessions]
             ELSE hist.pre]

\* Process p goes to the given step of its operation.
Goto(p, step) == tpc' = [tpc EXCEPT ![p] = step]

\* The operation of process p ends: it returns or its exception leaves it.
Finish(p) ==
    /\ tpc' = [tpc EXCEPT ![p] = "idle"]
    /\ tcall' = [tcall EXCEPT ![p] = NoCall]
    /\ local' = [local EXCEPT ![p] = NoLocal]

\* A process enters create_team with a valid name.
StartCreateTeam(p) ==
    /\ tpc[p] = "idle"
    /\ hist.nops < MaxOps
    /\ hist' = Started
    /\ tcall' = [tcall EXCEPT ![p] = [NoCall EXCEPT !.op = "create_team"]]
    /\ Goto(p, "ct_open")
    /\ UNCHANGED <<config, sessions, panes, inboxes, clock, local, tvars, ivars, svars>>

\* create_team: config_path.write_text(...) opens config.json, whether or
\* not it exists, which truncates it.
CreateTeamOpen(p) ==
    /\ tpc[p] = "ct_open"
    /\ config' = TruncatedConfig
    /\ Goto(p, "ct_write")
    /\ UNCHANGED <<sessions, panes, inboxes, clock, tcall, local, hist, tvars, ivars, svars>>

\* create_team: write_text writes the config that holds only the lead, and
\* create_team returns.
CreateTeamWrite(p) ==
    /\ tpc[p] = "ct_write"
    /\ config' = TeamConfig(<<LeadMember>>)
    /\ hist' = [hist EXCEPT !.nspawned = 0]
    /\ Finish(p)
    /\ UNCHANGED <<sessions, panes, inboxes, clock, tvars, ivars, svars>>

\* A process enters add_member with a teammate of the given name.
StartAddMember(p, name) ==
    /\ tpc[p] = "idle"
    /\ hist.nops < MaxOps
    /\ hist' = Started
    /\ tcall' = [tcall EXCEPT ![p] = [NoCall EXCEPT !.op = "add_member", !.name = name]]
    /\ local' = [local EXCEPT ![p] =
                    [NoLocal EXCEPT !.member = TeammateMember(name, 0, "claude", 0)]]
    /\ Goto(p, "am_read")
    /\ UNCHANGED <<config, sessions, panes, inboxes, clock, tvars, ivars, svars>>

\* An add_member that does not test for the name.
AddMemberReadNoCheck(p) ==
    /\ tpc[p] = "am_read"
    /\ IF Readable(config)
       THEN /\ local' = [local EXCEPT ![p].config = config.members]
            /\ Goto(p, "am_write")
            /\ tcall' = tcall
       ELSE IF tcall[p].op = "spawn"
            THEN Goto(p, "s_except") /\ UNCHANGED <<tcall, local>>
            ELSE Finish(p)
    /\ UNCHANGED <<config, sessions, panes, inboxes, clock, hist, tvars, ivars, svars>>

\* add_member: read_config and the test for the name.  An exception ends a
\* direct call; in spawn_teammate it is caught with member_added False.
AddMemberRead(p) ==
    /\ tpc[p] = "am_read"
    /\ IF Readable(config) /\ tcall[p].name \notin MemberNames(config.members)
       THEN /\ local' = [local EXCEPT ![p].config = config.members]
            /\ Goto(p, "am_write")
            /\ tcall' = tcall
       ELSE IF tcall[p].op = "spawn"
            THEN Goto(p, "s_except") /\ UNCHANGED <<tcall, local>>
            ELSE Finish(p)
    /\ UNCHANGED <<config, sessions, panes, inboxes, clock, hist, tvars, ivars, svars>>

\* add_member: config.members.append(member); write_config, whose rename puts
\* the whole new content in place in one step.
AddMemberWrite(p) ==
    /\ tpc[p] = "am_write"
    /\ config' = TeamConfig(Append(local[p].config, local[p].member))
    /\ IF tcall[p].op = "spawn"
       THEN /\ local' = [local EXCEPT ![p].member_added = TRUE]
            /\ Goto(p, "s_inbox")
            /\ tcall' = tcall
       ELSE Finish(p)
    /\ UNCHANGED <<sessions, panes, inboxes, clock, hist, tvars, ivars, svars>>

\* A process enters remove_member.
StartRemoveMember(p, name) ==
    /\ tpc[p] = "idle"
    /\ hist.nops < MaxOps
    /\ hist' = Started
    /\ tcall' = [tcall EXCEPT ![p] = [NoCall EXCEPT !.op = "remove_member", !.name = name]]
    /\ Goto(p, "rm_read")
    /\ UNCHANGED <<config, sessions, panes, inboxes, clock, local, tvars, ivars, svars>>

\* Where an operation goes on after its remove_member raised: the rollback of
\* spawn_teammate swallows the exception, every other caller is left by it.
AfterRemoveRaised(p) ==
    IF tcall[p].op = "spawn"
    THEN Goto(p, "s_cleanup") /\ UNCHANGED <<tcall, local>>
    ELSE Finish(p)

\* A remove_member that accepts the name of the lead.
RemoveMemberReadAnyName(p) ==
    /\ tpc[p] = "rm_read"
    /\ IF Readable(config)
       THEN /\ local' = [local EXCEPT ![p].config = config.members]
            /\ Goto(p, "rm_write")
            /\ tcall' = tcall
       ELSE AfterRemoveRaised(p)
    /\ UNCHANGED <<config, sessions, panes, inboxes, clock, hist, tvars, ivars, svars>>

\* remove_member: the test for team-lead and read_config.
RemoveMemberRead(p) ==
    /\ tpc[p] = "rm_read"
    /\ IF tcall[p].name # "team-lead" /\ Readable(config)
       THEN /\ local' = [local EXCEPT ![p].config = config.members]
            /\ Goto(p, "rm_write")
            /\ tcall' = tcall
       ELSE AfterRemoveRaised(p)
    /\ UNCHANGED <<config, sessions, panes, inboxes, clock, hist, tvars, ivars, svars>>

\* remove_member: the members of another name, written by write_config.
RemoveMemberWrite(p) ==
    /\ tpc[p] = "rm_write"
    /\ config' = TeamConfig(SelectSeq(local[p].config,
                                      LAMBDA m : m.name # tcall[p].name))
    /\ IF tcall[p].op = "spawn"
       THEN Goto(p, "s_cleanup") /\ UNCHANGED <<tcall, local>>
       ELSE IF tcall[p].op = "remove_member"
            THEN Finish(p)
            ELSE Goto(p, "k_reset") /\ UNCHANGED <<tcall, local>>
    /\ UNCHANGED <<sessions, panes, inboxes, clock, hist, tvars, ivars, svars>>

\* A process enters spawn_teammate; oc tells whether the opencode binary and
\* the server URL are configured (the claude binary is).
StartSpawn(p, name, backend_type, oc) ==
    /\ tpc[p] = "idle"
    /\ hist.nops < MaxOps
    /\ tcall' = [tcall EXCEPT ![p] = [NoCall EXCEPT !.op = "spawn", !.name = name,
                                      !.backend_type = backend_type, !.oc = oc]]
    /\ local' = [local EXCEPT ![p] = [NoLocal EXCEPT !.n = hist.nops + 1]]
    /\ hist' = Started
    /\ Goto(p, "s_validate")
    /\ UNCHANGED <<config, sessions, panes, inboxes, clock, tvars, ivars, svars>>

\* spawn_teammate: the tests of the name and of the backend.
SpawnValidate(p) ==
    /\ tpc[p] = "s_validate"
    /\ IF tcall[p].name = "team-lead" \/ (tcall[p].backend_type = "opencode" /\ ~tcall[p].oc)
       THEN Goto(p, "s_raise")
       ELSE IF tcall[p].backend_type = "opencode"
            THEN Goto(p, "s_session")
            ELSE Goto(p, "s_color")
    /\ UNCHANGED <<config, sessions, panes, inboxes, clock, tcall, local, hist, tvars, ivars, svars>>

\* spawn_teammate, opencode: verify_mcp_configured and create_session; either
\* raises OpenCodeAPIError, or a session exists and its id is kept.
SpawnSession(p) ==
    /\ tpc[p] = "s_session"
    /\ \E ok \in BOOLEAN :
          IF ok
          THEN /\ sessions' = sessions \cup {local[p].n}
               /\ local' = [local EXCEPT ![p].session = local[p].n]
               /\ Goto(p, "s_color")
          ELSE /\ Goto(p, "s_raise")
               /\ UNCHANGED <<sessions, local>>
    /\ UNCHANGED <<config, panes, inboxes, clock, tcall, hist, tvars, ivars, svars>>

\* A color taken from the number of all members, the lead included.
assign_color_all_members(members) == Len(members) % PaletteSize

\* assign_color: COLOR_PALETTE[count % len(COLOR_PALETTE)], as its index.
assign_color(members) ==
    Cardinality({i \in 1..Len(members) : members[i].teammate}) % PaletteSize

\* spawn_teammate: assign_color, whose read_config raises before the try
\* block is entered, and the TeammateMember.
SpawnColor(p) ==
    /\ tpc[p] = "s_color"
    /\ IF Readable(config)
       THEN /\ local' = [local EXCEPT ![p].member =
                            TeammateMember(tcall[p].name, assign_color(config.members),
                                           tcall[p].backend_type, local[p].session)]
            /\ Goto(p, "am_read")
       ELSE /\ Goto(p, "s_raise")
            /\ local' = local
    /\ UNCHANGED <<config, sessions, panes, inboxes, clock, tcall, hist, tvars, ivars, svars>>

\* The text of a message that is no JSON object.
PlainText(text) == [plain |-> text]

\* A message that is born read.
InboxMessageRead(from, text) == [from |-> from, text |-> text, read |-> TRUE]

\* InboxMessage(from_=..., text=..., read=False)
InboxMessage(from, text) == [from |-> from, text |-> text, read |-> FALSE]

\* A spawn_teammate that goes on without the message.
SpawnInboxNoAppend(p) ==
    /\ tpc[p] = "s_inbox"
    /\ \E ok \in BOOLEAN :
          IF ok
          THEN /\ inboxes' = inboxes
               /\ Goto(p, IF tcall[p].backend_type = "opencode" THEN "s_push" ELSE "s_launch")
          ELSE /\ Goto(p, "s_except")
               /\ inboxes' = inboxes
    /\ UNCHANGED <<config, sessions, panes, clock, tcall, local, hist, tvars, ivars, svars>>

\* spawn_teammate: ensure_inbox and append_message of the prompt, which may
\* raise (OSError).
SpawnInbox(p) ==
    /\ tpc[p] = "s_inbox"
    /\ \E ok \in BOOLEAN :
          IF ok
          THEN /\ inboxes' = [inboxes EXCEPT ![tcall[p].name] =
                                 Append(@, InboxMessage("team-lead", PlainText("prompt")))]
               /\ Goto(p, IF tcall[p].backend_type = "opencode" THEN "s_push" ELSE "s_launch")
          ELSE /\ Goto(p, "s_except")
               /\ inboxes' = inboxes
    /\ UNCHANGED <<config, sessions, panes, clock, tcall, local, hist, tvars, ivars, svars>>

\* spawn_teammate, opencode: send_prompt_async, which may raise.
SpawnPush(p) ==
    /\ tpc[p] = "s_push"
    /\ \E ok \in BOOLEAN : Goto(p, IF ok THEN "s_launch" ELSE "s_except")
    /\ UNCHANGED <<config, sessions, panes, inboxes, clock, tcall, local, hist, tvars, ivars, svars>>

\* spawn_teammate: subprocess.run of the multiplexer with check=True; it
\* raises, or a target exists and its id is the output.
SpawnLaunch(p) ==
    /\ tpc[p] = "s_launch"
    /\ \E ok \in BOOLEAN :
          IF ok
          THEN /\ panes' = panes \cup {local[p].n}
               /\ local' = [local EXCEPT ![p].pane = local[p].n]
               /\ Goto(p, "s_fread")
          ELSE /\ Goto(p, "s_except")
               /\ UNCHANGED <<panes, local>>
    /\ UNCHANGED <<config, sessions, inboxes, clock, tcall, hist, tvars, ivars, svars>>

\* The members with tmux_pane_id set on the first teammate of the name.
SetPane(members, name, pane_id) ==
    [i \in 1..Len(members) |->
        IF i \in FindTeammate(members, name)
        THEN [members[i] EXCEPT !.tmux_pane_id = pane_id]
        ELSE members[i]]

\* spawn_teammate: read_config and the loop that sets tmux_pane_id.
SpawnFinalRead(p) ==
    /\ tpc[p] = "s_fread"
    /\ IF Readable(config)
       THEN /\ local' = [local EXCEPT ![p].config =
                            SetPane(config.members, tcall[p].name, local[p].pane)]
            /\ Goto(p, "s_fwrite")
       ELSE /\ Goto(p, "s_except")
            /\ local' = local
    /\ UNCHANGED <<config, sessions, panes, inboxes, clock, tcall, hist, tvars, ivars, svars>>

\* spawn_teammate: write_config; it raises and leaves config.json as it was,
\* or its rename puts the new content in place.
SpawnFinalWrite(p) ==
    /\ tpc[p] = "s_fwrite"
    /\ \E ok \in BOOLEAN :
          IF ok
          THEN config' = TeamConfig(local[p].config) /\ Goto(p, "s_return")
          ELSE config' = config /\ Goto(p, "s_except")
    /\ UNCHANGED <<sessions, panes, inboxes, clock, tcall, local, hist, tvars, ivars, svars>>

\* spawn_teammate, `except Exception`: remove_member if member_added.
SpawnExcept(p) ==
    /\ tpc[p] = "s_except"
    /\ Goto(p, IF local[p].member_added THEN "rm_read" ELSE "s_cleanup")
    /\ UNCHANGED <<config, sessions, panes, inboxes, clock, tcall, local, hist, tvars, ivars, svars>>

\* spawn_teammate, `except Exception`: abort_session and delete_session of
\* the session the call created (both taken to succeed).
SpawnCleanup(p) ==
    /\ tpc[p] = "s_cleanup"
    /\ sessions' = IF tcall[p].backend_type = "opencode" /\ tcall[p].oc
                      /\ local[p].session # 0
                   THEN sessions \ {local[p].session}
                   ELSE sessions
    /\ Goto(p, "s_raise")
    /\ UNCHANGED <<config, panes, inboxes, clock, tcall, local, hist, tvars, ivars, svars>>

\* spawn_teammate is left by an exception.
SpawnRaise(p) ==
    /\ tpc[p] = "s_raise"
    /\ Finish(p)
    /\ UNCHANGED <<config, sessions, panes, inboxes, clock, hist, tvars, ivars, svars>>

\* spawn_teammate returns the member.
SpawnReturn(p) ==
    /\ tpc[p] = "s_return"
    /\ hist' = [hist EXCEPT !.nspawned = @ + 1]
    /\ Finish(p)
    /\ UNCHANGED <<config, sessions, panes, inboxes, clock, tvars, ivars, svars>>

\* A process enters force_kill_teammate or process_shutdown_approved; oc
\* tells whether the server has an opencode server URL.
StartKill(p, op, agent_name, oc) ==
    /\ tpc[p] = "idle"
    /\ hist.nops < MaxOps
    /\ hist' = Started
    /\ tcall' = [tcall EXCEPT ![p] = [NoCall EXCEPT !.op = op, !.name = agent_name,
                                      !.oc = oc]]
    /\ Goto(p, "k_find")
    /\ UNCHANGED <<config, sessions, panes, inboxes, clock, local, tvars, ivars, svars>>

\* force_kill_teammate / process_shutdown_approved: the test for team-lead
\* (process_shutdown_approved only), read_config and the search for the
\* teammate; the call fails when there is none.
KillFind(p) ==
    /\ tpc[p] = "k_find"
    /\ IF /\ ~(tcall[p].op = "process_shutdown_approved" /\ tcall[p].name = "team-lead")
          /\ Readable(config)
          /\ FindTeammate(config.members, tcall[p].name) # {}
       THEN /\ local' = [local EXCEPT ![p].member =
                   config.members[CHOOSE i \in FindTeammate(config.members, tcall[p].name) : TRUE]]
            /\ Goto(p, "k_cleanup")
            /\ tcall' = tcall
       ELSE Finish(p)
    /\ UNCHANGED <<config, sessions, panes, inboxes, clock, hist, tvars, ivars, svars>>

\* force_kill_teammate / process_shutdown_approved: _cleanup_opencode_session
\* (taken to succeed) and kill_tmux_pane.
KillCleanup(p) ==
    /\ tpc[p] = "k_cleanup"
    /\ sessions' = IF /\ local[p].member.backend_type = "opencode"
                      /\ local[p].member.opencode_session_id # 0
                      /\ tcall[p].oc
                   THEN sessions \ {local[p].member.opencode_session_id}
                   ELSE sessions
    /\ panes' = IF local[p].member.tmux_pane_id # 0
                THEN panes \ {local[p].member.tmux_pane_id}
                ELSE panes
    /\ Goto(p, "rm_read")
    /\ UNCHANGED <<config, inboxes, clock, tcall, local, hist, tvars, ivars, svars>>

\* force_kill_teammate / process_shutdown_approved: reset_owner_tasks, return.
KillReset(p) ==
    /\ tpc[p] = "k_reset"
    /\ tasks' = reset_owner_tasks(tasks, tcall[p].name)
    /\ created' = 0
    /\ Finish(p)
    /\ UNCHANGED <<config, sessions, panes, inboxes, clock, hist, assignedIds, ivars, svars>>

\* The operations on one team, by several processes whose steps interleave;
\* the teammates are spawned with the claude backend.
TeamNext ==
    \E p \in Procs :
        \/ StartCreateTeam(p)
        \/ CreateTeamOpen(p)
        \/ CreateTeamWrite(p)
        \/ \E name \in Names \cup {"team-lead"} : StartAddMember(p, name)
        \/ AddMemberRead(p)
        \/ AddMemberWrite(p)
        \/ \E name \in Names \cup {"team-lead"} : StartRemoveMember(p, name)
        \/ RemoveMemberRead(p)
        \/ RemoveMemberWrite(p)
        \/ \E name \in Names \cup {"team-lead"} : StartSpawn(p, name, "claude", FALSE)
        \/ SpawnValidate(p)
        \/ SpawnColor(p)
        \/ SpawnInbox(p)
        \/ SpawnLaunch(p)
        \/ SpawnFinalRead(p)
        \/ SpawnFinalWrite(p)
        \/ SpawnExcept(p)
        \/ SpawnCleanup(p)
        \/ SpawnRaise(p)
        \/ SpawnReturn(p)
        \/ \E op \in {"force_kill", "process_shutdown_approved"},
              agent_name \in Names \cup {"team-lead"} :
              StartKill(p, op, agent_name, FALSE)
        \/ KillFind(p)
        \/ KillCleanup(p)
        \/ KillReset(p)

\* create_team is called while no other operation is in progress.
SerialStartCreateTeam(p) == TeamIdle /\ StartCreateTeam(p)

\* add_member is called while no other operation is in progress.
SerialStartAddMember(p, name) == TeamIdle /\ StartAddMember(p, name)

\* remove_member is called while no other operation is in progress.
SerialStartRemoveMember(p, name) == TeamIdle /\ StartRemoveMember(p, name)

\* spawn_teammate is called while no other operation is in progress.
SerialStartSpawn(p, name, backend_type, oc) ==
    TeamIdle /\ StartSpawn(p, name, backend_type, oc)

\* force_kill_teammate or process_shutdown_approved is called while no other
\* operation is in progress.
SerialStartKill(p, op, agent_name, oc) ==
    TeamIdle /\ StartKill(p, op, agent_name, oc)

\* The operations on one team, one after the other; teammates of both
\* backends.
TeamSerialNext ==
    \E p \in Procs :
        \/ SerialStartCreateTeam(p)
        \/ CreateTeamOpen(p)
        \/ CreateTeamWrite(p)
        \/ \E name \in Names \cup {"team-lead"} : SerialStartAddMember(p, name)
        \/ AddMemberRead(p)
        \/ AddMemberWrite(p)
        \/ \E name \in Names \cup {"team-lead"} : SerialStartRemoveMember(p, name)
        \/ RemoveMemberRead(p)
        \/ RemoveMemberWrite(p)
        \/ \E name \in Names \cup {"team-lead"}, backend_type \in {"claude", "opencode"},
              oc \in BOOLEAN : SerialStartSpawn(p, name, backend_type, oc)
        \/ SpawnValidate(p)
        \/ SpawnSession(p)
        \/ SpawnColor(p)
        \/ SpawnInbox(p)
        \/ SpawnPush(p)
        \/ SpawnLaunch(p)
        \/ SpawnFinalRead(p)
        \/ SpawnFinalWrite(p)
        \/ SpawnExcept(p)
        \/ SpawnCleanup(p)
        \/ SpawnRaise(p)
        \/ SpawnReturn(p)
        \/ \E op \in {"force_kill", "process_shutdown_approved"},
              agent_name \in Names \cup {"team-lead"}, oc \in BOOLEAN :
              SerialStartKill(p, op, agent_name, oc)
        \/ KillFind(p)
        \/ KillCleanup(p)
        \/ KillReset(p)

\* ------------------------------------------------------ shutdown messages
\* Last value of the millisecond clock in a checked run.
MaxClock == 1

\* Longest inbox a send_message call is started on in a checked run.
MaxInbox == 2

\* f"shutdown-{int(time.time() * 1000)}@{recipient}"
RequestId(ms, recipient) == [ms |-> ms, to |-> recipient]

\* The request ids a caller may supply: those send_shutdown_request can
\* build, and one it never builds ("req-1").
RequestIds ==
    {RequestId(ms, to) : ms \in 0..MaxClock, to \in Names} \cup {RequestId(-1, None)}

\* ShutdownRequest(request_id=..., from_="team-lead", reason=..., timestamp=...)
ShutdownRequest(request_id, timestamp) ==
    [type |-> "shutdown_request", request_id |-> request_id, from_ |-> "team-lead",
     reason |-> "reason", timestamp |-> timestamp]

\* A ShutdownApproved whose request id is built from the clock.
ShutdownApprovedFreshId(request_id, from, timestamp, member) ==
    [type |-> "shutdown_approved", request_id |-> RequestId(timestamp, from),
     from_ |-> from, timestamp |-> timestamp, pane_id |-> member.tmux_pane_id,
     backend_type |-> member.backend_type,
     session_id |-> member.opencode_session_id]

\* ShutdownApproved(request_id=..., from_=sender, timestamp=..., pane_id=...,
\* backend_type=..., session_id=...) of the member found in the config.
ShutdownApproved(request_id, from, timestamp, member) ==
    [type |-> "shutdown_approved", request_id |-> request_id,
     from_ |-> from, timestamp |-> timestamp, pane_id |-> member.tmux_pane_id,
     backend_type |-> member.backend_type,
     session_id |-> member.opencode_session_id]

\* payload.model_dump_json(by_alias=True): the JSON object as the function
\* from its keys, which are the aliases of the fields, to their values.  No
\* field is left out: a session_id that is None (0) gives "sessionId": null.
model_dump_json(payload) ==
    IF payload.type = "shutdown_request"
    THEN [type |-> payload.type, requestId |-> payload.request_id,
          from |-> payload.from_, reason |-> payload.reason,
          timestamp |-> payload.timestamp]
    ELSE [type |-> payload.type, requestId |-> payload.request_id,
          from |-> payload.from_, timestamp |-> payload.timestamp,
          paneId |-> payload.pane_id, backendType |-> payload.backend_type,
          sessionId |-> payload.session_id]

\* The inbox send_message appends to.
SendTarget(c) == IF c.op = "shutdown_request" THEN c.name ELSE "team-lead"

\* The clock of the machine advances.
Tick ==
    /\ clock < MaxClock
    /\ clock' = clock + 1
    /\ UNCHANGED <<config, sessions, panes, inboxes, tpc, tcall, local, hist, tvars, ivars, svars>>

\* A process enters send_message with type shutdown_request (name is the
\* recipient) or shutdown_response (name is the sender), while no other
\* operation is in progress.
StartSendMessage(p, type, name, request_id, approve) ==
    /\ TeamIdle
    /\ tcall' = [tcall EXCEPT ![p] = [NoCall EXCEPT !.op = type, !.name = name,
                                      !.request_id = request_id, !.approve = approve]]
    /\ Len(inboxes[SendTarget(tcall'[p])]) < MaxInbox
    /\ Goto(p, "sm_read")
    /\ UNCHANGED <<config, sessions, panes, inboxes, clock, local, hist, tvars, ivars, svars>>

\* send_message: read_config and the tests of the recipient (shutdown_request)
\* or the search for the sender among the teammates (shutdown_response).
SendRead(p) ==
    /\ tpc[p] = "sm_read"
    /\ IF tcall[p].op = "shutdown_request"
       THEN IF /\ tcall[p].name # "team-lead"
               /\ Readable(config)
               /\ tcall[p].name \in MemberNames(config.members)
            THEN Goto(p, "sm_append") /\ local' = local
            ELSE Goto(p, "sm_error") /\ local' = local
       ELSE IF Readable(config) /\ FindTeammate(config.members, tcall[p].name) # {}
            THEN /\ local' = [local EXCEPT ![p].member =
                        config.members[CHOOSE i \in FindTeammate(config.members, tcall[p].name) : TRUE]]
                 /\ Goto(p, "sm_append")
            ELSE Goto(p, "sm_error") /\ local' = local
    /\ UNCHANGED <<config, sessions, panes, inboxes, clock, tcall, hist, tvars, ivars, svars>>

\* The message send_message builds: send_shutdown_request's, the
\* shutdown_approved of an approval, the plain message of a rejection.
SentMessage(p) ==
    IF tcall[p].op = "shutdown_request"
    THEN InboxMessage("team-lead",
             model_dump_json(ShutdownRequest(RequestId(clock, tcall[p].name), clock)))
    ELSE IF tcall[p].approve
    THEN InboxMessage(tcall[p].name,
             model_dump_json(ShutdownApproved(tcall[p].request_id, tcall[p].name,
                                              clock, local[p].member)))
    ELSE [from |-> tcall[p].name, text |-> PlainText("Shutdown rejected"),
          read |-> FALSE, summary |-> "shutdown_rejected"]

\* send_message: send_structured_message or send_plain_message appends the
\* message to the inbox; the push to an opencode session changes no file and
\* its failure is logged.
SendAppend(p) ==
    /\ tpc[p] = "sm_append"
    /\ inboxes' = [inboxes EXCEPT ![SendTarget(tcall[p])] = Append(@, SentMessage(p))]
    /\ Goto(p, "sm_done")
    /\ UNCHANGED <<config, sessions, panes, clock, tcall, local, hist, tvars, ivars, svars>>

\* send_message returns its SendMessageResult, or its ToolError leaves it.
SendReturn(p) ==
    /\ tpc[p] \in {"sm_done", "sm_error"}
    /\ Finish(p)
    /\ UNCHANGED <<config, sessions, panes, inboxes, clock, hist, tvars, ivars, svars>>

\* The team operations one after the other, the shutdown messages and the
\* clock: every tool is called in any order and with any argument.
ShutdownNext ==
    \/ Tick
    \/ \E p \in Procs :
        \/ SerialStartCreateTeam(p)
        \/ CreateTeamOpen(p)
        \/ CreateTeamWrite(p)
        \/ \E name \in Names, backend_type \in {"claude", "opencode"} :
              SerialStartSpawn(p, name, backend_type, TRUE)
        \/ SpawnValidate(p)
        \/ SpawnSession(p)
        \/ SpawnColor(p)
        \/ AddMemberRead(p)
        \/ AddMemberWrite(p)
        \/ SpawnInbox(p)
        \/ SpawnPush(p)
        \/ SpawnLaunch(p)
        \/ SpawnFinalRead(p)
        \/ SpawnFinalWrite(p)
        \/ SpawnExcept(p)
        \/ RemoveMemberRead(p)
        \/ RemoveMemberWrite(p)
        \/ SpawnCleanup(p)
        \/ SpawnRaise(p)
        \/ SpawnReturn(p)
        \/ \E agent_name \in Names \cup {"team-lead"} :
              SerialStartKill(p, "process_shutdown_approved", agent_name, TRUE)
        \/ KillFind(p)
        \/ KillCleanup(p)
        \/ KillReset(p)
        \/ \E name \in Names \cup {"team-lead"} :
              StartSendMessage(p, "shutdown_request", name, None, FALSE)
        \/ \E name \in Names \cup {"team-lead"}, request_id \in RequestIds,
              approve \in BOOLEAN :
              StartSendMessage(p, "shutdown_response", name, request_id, approve)
        \/ SendRead(p)
        \/ SendAppend(p)
        \/ SendReturn(p)


\* ------------------------------------------------------------ task tools
\* Most task files in a run of the task tools.
MaxTasks == 2

\* The owner arguments of the task_update tool: none, the lead, a name that a
\* teammate may or may not have.
ToolOwnerArgs == {None, "team-lead", "alice"}

\* The number of messages in the inboxes of the team.
RECURSIVE TotalMessages(_, _)
TotalMessages(boxes, agents) ==
    IF agents = {} THEN 0
    ELSE LET a == CHOOSE x \in agents : TRUE
         IN  Len(boxes[a]) + TotalMessages(boxes, agents \ {a})

\* The status arguments the tool's Literal type lets through.
ToolStatusArgs == {None, "pending", "in_progress", "completed", "deleted"}

\* The task tools' create_task: the team exists (team_exists) and no other
\* operation is in progress.
ToolCreateTask ==
    /\ TeamIdle
    /\ Readable(config)
    /\ Cardinality(DOMAIN tasks) < MaxTasks
    /\ CreateTask

\* A process enters the task_update tool, while no other operation is in
\* progress.
StartTaskUpdate(p, task_id, status, owner) ==
    /\ TeamIdle
    /\ owner # None => TotalMessages(inboxes, DOMAIN inboxes) < MaxInbox
    /\ tcall' = [tcall EXCEPT ![p] = [NoCall EXCEPT !.op = "task_update",
                                      !.task_id = task_id, !.status = status,
                                      !.owner = owner]]
    /\ Goto(p, "tu_check")
    /\ UNCHANGED <<config, sessions, panes, inboxes, clock, local, hist, tvars, ivars, svars>>

\* task_update: a supplied owner must be a member of the team.
TaskUpdateCheck(p) ==
    /\ tpc[p] = "tu_check"
    /\ IF tcall[p].owner = None
          \/ (Readable(config) /\ tcall[p].owner \in MemberNames(config.members))
       THEN Goto(p, "tu_update")
       ELSE Goto(p, "tu_error")
    /\ UNCHANGED <<config, sessions, panes, inboxes, clock, tcall, local, hist, tvars, ivars, svars>>

\* The TaskFile update_task returns: the task with the supplied owner and
\* status (also "deleted") and the edges of the file.
ReturnedTask(files, task_id, status, owner) ==
    [files[task_id] EXCEPT !.status = IF status = None THEN @ ELSE status,
                           !.owner = IF owner = None THEN @ ELSE owner]

\* task_update: tasks.update_task, whose FileNotFoundError and ValueError
\* become a ToolError.
TaskUpdateRun(p) ==
    /\ tpc[p] = "tu_update"
    /\ LET r == update_task(tasks, tcall[p].task_id, tcall[p].status, tcall[p].owner, {}, {})
       IN  IF r.err = "ok"
           THEN /\ tasks' = r.files
                /\ local' = [local EXCEPT ![p].task =
                                ReturnedTask(tasks, tcall[p].task_id, tcall[p].status,
                                             tcall[p].owner)]
                /\ Goto(p, "tu_send")
           ELSE /\ Goto(p, "tu_error")
                /\ UNCHANGED <<tasks, local>>
    /\ created' = 0
    /\ UNCHANGED <<config, sessions, panes, inboxes, clock, tcall, hist, assignedIds, ivars, svars>>

\* TaskAssignment(task_id=task.id, ..., assigned_by=...) through
\* model_dump_json(by_alias=True).
TaskAssignment(task_id, assigned_by, timestamp) ==
    [type |-> "task_assignment", taskId |-> task_id, subject |-> "subject",
     description |-> "description", assignedBy |-> assigned_by, timestamp |-> timestamp]

\* A task_update that notifies the owner of a deleted task too.
TaskUpdateSendAlways(p) ==
    /\ tpc[p] = "tu_send"
    /\ IF tcall[p].owner # None /\ local[p].task.owner # None
       THEN inboxes' = [inboxes EXCEPT ![local[p].task.owner] =
                Append(@, InboxMessage("team-lead",
                              TaskAssignment(tcall[p].task_id, "team-lead", clock)))]
       ELSE inboxes' = inboxes
    /\ Goto(p, "tu_done")
    /\ UNCHANGED <<config, sessions, panes, clock, tcall, local, hist, tvars, ivars, svars>>

\* task_update: send_task_assignment to the owner of the returned task when an
\* owner was supplied and the task is not deleted.
TaskUpdateSend(p) ==
    /\ tpc[p] = "tu_send"
    /\ IF tcall[p].owner # None /\ local[p].task.owner # None
          /\ local[p].task.status # "deleted"
       THEN inboxes' = [inboxes EXCEPT ![local[p].task.owner] =
                Append(@, InboxMessage("team-lead",
                              TaskAssignment(tcall[p].task_id, "team-lead", clock)))]
       ELSE inboxes' = inboxes
    /\ Goto(p, "tu_done")
    /\ UNCHANGED <<config, sessions, panes, clock, tcall, local, hist, tvars, ivars, svars>>

\* task_update returns the task, or its ToolError leaves it.
TaskUpdateReturn(p) ==
    /\ tpc[p] \in {"tu_done", "tu_error"}
    /\ Finish(p)
    /\ UNCHANGED <<config, sessions, panes, inboxes, clock, hist, tvars, ivars, svars>>

\* The tasks of a team and their owners: members come and go, tasks are
\* created and updated through the tools, one call after the other.
OwnerNext ==
    \/ ToolCreateTask
    \/ \E p \in Procs :
        \/ SerialStartCreateTeam(p)
        \/ CreateTeamOpen(p)
        \/ CreateTeamWrite(p)
        \/ \E name \in Names : SerialStartAddMember(p, name)
        \/ AddMemberRead(p)
        \/ AddMemberWrite(p)
        \/ \E op \in {"force_kill", "process_shutdown_approved"},
              agent_name \in Names \cup {"team-lead"} :
              SerialStartKill(p, op, agent_name, FALSE)
        \/ KillFind(p)
        \/ KillCleanup(p)
        \/ RemoveMemberRead(p)
        \/ RemoveMemberWrite(p)
        \/ KillReset(p)
        \/ \E task_id \in 1..MaxTasks, status \in ToolStatusArgs, owner \in ToolOwnerArgs :
              StartTaskUpdate(p, task_id, status, owner)
        \/ TaskUpdateCheck(p)
        \/ TaskUpdateRun(p)
        \/ TaskUpdateSend(p)
        \/ TaskUpdateReturn(p)

\* ------------------------------------------------------------ team tools
\* The server sessions (one MCP server process each) that share the
\* directories.
ServerSessions == {"s1", "s2"}

\* The team whose config, inboxes and tasks the variables above hold, and
\* the team names the tools are called with; of another team only the
\* leadSessionId of its config is kept, and it gets no teammate.
MainTeam == "t1"

TeamNames == {MainTeam, "t2"}

ServerInit ==
    /\ active_team = [s \in ServerSessions |-> None]
    /\ lead_sessions = [t \in TeamNames |-> None]

\* A process enters the team_create tool of a server session, while no other
\* operation is in progress.
StartTeamCreate(p, s, team_name) ==
    /\ TeamIdle
    /\ tcall' = [tcall EXCEPT ![p] = [NoCall EXCEPT !.op = "team_create",
                                      !.name = team_name, !.session = s]]
    /\ Goto(p, "tc_check")
    /\ UNCHANGED <<config, sessions, panes, inboxes, clock, local, hist, tvars, ivars, svars>>

\* team_create: the session must have no active team.
TeamCreateCheck(p) ==
    /\ tpc[p] = "tc_check"
    /\ Goto(p, IF active_team[tcall[p].session] # None THEN "tc_error" ELSE "tc_create")
    /\ UNCHANGED <<config, sessions, panes, inboxes, clock, tcall, local, hist, tvars, ivars, svars>>

\* team_create: teams.create_team, which makes the directories (exist_ok) and
\* writes the config with the lead and the session id, whatever was there;
\* then ls["active_team"] = team_name.
TeamCreateRun(p) ==
    /\ tpc[p] = "tc_create"
    /\ IF tcall[p].name = MainTeam
       THEN /\ config' = TeamConfig(<<LeadMember>>)
            /\ hist' = [hist EXCEPT !.nspawned = 0]
       ELSE UNCHANGED <<config, hist>>
    /\ lead_sessions' = [lead_sessions EXCEPT ![tcall[p].name] = tcall[p].session]
    /\ active_team' = [active_team EXCEPT ![tcall[p].session] = tcall[p].name]
    /\ Goto(p, "tc_done")
    /\ UNCHANGED <<sessions, panes, inboxes, clock, tcall, local, tvars, ivars, tmp_files>>

\* team_create returns, or its ToolError leaves it.
TeamCreateReturn(p) ==
    /\ tpc[p] \in {"tc_done", "tc_error"}
    /\ Finish(p)
    /\ UNCHANGED <<config, sessions, panes, inboxes, clock, hist, tvars, ivars, svars>>

\* A process enters the team_delete tool of a server session, while no other
\* operation is in progress.
StartTeamDelete(p, s, team_name) ==
    /\ TeamIdle
    /\ tcall' = [tcall EXCEPT ![p] = [NoCall EXCEPT !.op = "team_delete",
                                      !.name = team_name, !.session = s]]
    /\ Goto(p, "td_read")
    /\ UNCHANGED <<config, sessions, panes, inboxes, clock, local, hist, tvars, ivars, svars>>

\* [m for m in config.members if isinstance(m, TeammateMember)]
non_lead(members) == SelectSeq(members, LAMBDA m : m.teammate)

\* A delete_team that looks at the first member only.
TeamDeleteReadFirstMember(p) ==
    /\ tpc[p] = "td_read"
    /\ IF tcall[p].name = MainTeam
       THEN Goto(p, IF Readable(config) /\ ~config.members[1].teammate
                    THEN "td_rm" ELSE "td_error")
       ELSE Goto(p, IF lead_sessions[tcall[p].name] # None THEN "td_rm" ELSE "td_error")
    /\ UNCHANGED <<config, sessions, panes, inboxes, clock, tcall, local, hist, tvars, ivars, svars>>

\* delete_team: read_config, which raises when there is no config, and the
\* test for teammates.
TeamDeleteRead(p) ==
    /\ tpc[p] = "td_read"
    /\ IF tcall[p].name = MainTeam
       THEN Goto(p, IF Readable(config) /\ non_lead(config.members) = <<>>
                    THEN "td_rm" ELSE "td_error")
       ELSE Goto(p, IF lead_sessions[tcall[p].name] # None THEN "td_rm" ELSE "td_error")
    /\ UNCHANGED <<config, sessions, panes, inboxes, clock, tcall, local, hist, tvars, ivars, svars>>

\* delete_team: shutil.rmtree of teams/<team> (config and inboxes) and of
\* tasks/<team>.
TeamDeleteRemove(p) ==
    /\ tpc[p] = "td_rm"
    /\ IF tcall[p].name = MainTeam
       THEN /\ config' = NoConfig
            /\ inboxes' = [a \in DOMAIN inboxes |-> <<>>]
            /\ tasks' = [x \in {} |-> NewTaskFile]
            /\ created' = 0
       ELSE UNCHANGED <<config, inboxes, tasks, created>>
    /\ lead_sessions' = [lead_sessions EXCEPT ![tcall[p].name] = None]
    /\ Goto(p, "td_done")
    /\ UNCHANGED <<sessions, panes, clock, tcall, local, hist, assignedIds, ivars, active_team, tmp_files>>

\* team_delete: ls["active_team"] = None and the return, or its ToolError.
TeamDeleteReturn(p) ==
    /\ tpc[p] \in {"td_done", "td_error"}
    /\ active_team' = IF tpc[p] = "td_done"
                      THEN [active_team EXCEPT ![tcall[p].session] = None]
                      ELSE active_team
    /\ Finish(p)
    /\ UNCHANGED <<config, sessions, panes, inboxes, clock, hist, tvars, ivars, lead_sessions, tmp_files>>

\* The tools of two server sessions on two teams, one call after the other:
\* teams are created and deleted, teammates of the main team are spawned and
\* stopped, tasks are created.
ServerNext ==
    \/ ToolCreateTask
    \/ \E p \in Procs :
        \/ \E s \in ServerSessions, team_name \in TeamNames : StartTeamCreate(p, s, team_name)
        \/ TeamCreateCheck(p)
        \/ TeamCreateRun(p)
        \/ TeamCreateReturn(p)
        \/ \E s \in ServerSessions, team_name \in TeamNames : StartTeamDelete(p, s, team_name)
        \/ TeamDeleteRead(p)
        \/ TeamDeleteRemove(p)
        \/ TeamDeleteReturn(p)
        \/ \E name \in Names : SerialStartSpawn(p, name, "claude", FALSE)
        \/ SpawnValidate(p)
        \/ SpawnColor(p)
        \/ AddMemberRead(p)
        \/ AddMemberWrite(p)
        \/ SpawnInbox(p)
        \/ SpawnLaunch(p)
        \/ SpawnFinalRead(p)
        \/ SpawnFinalWrite(p)
        \/ SpawnExcept(p)
        \/ RemoveMemberRead(p)
        \/ RemoveMemberWrite(p)
        \/ SpawnCleanup(p)
        \/ SpawnRaise(p)
        \/ SpawnReturn(p)
        \/ \E agent_name \in Names : SerialStartKill(p, "force_kill", agent_name, FALSE)
        \/ KillFind(p)
        \/ KillCleanup(p)
        \/ KillReset(p)

\* ---------------------------------------------------------- direct messages
\* A process enters send_message with type message, while no other operation
\* is in progress; "" is the empty string.
StartSendPlain(p, sender, recipient, content, summary) ==
    /\ TeamIdle
    /\ TotalMessages(inboxes, DOMAIN inboxes) < MaxInbox
    /\ tcall' = [tcall EXCEPT ![p] = [NoCall EXCEPT !.op = "message", !.name = recipient,
                                      !.sender = sender, !.content = content,
                                      !.summary = summary]]
    /\ Goto(p, "sm_check")
    /\ UNCHANGED <<config, sessions, panes, inboxes, clock, local, hist, tvars, ivars, svars>>

\* A validation that lets a teammate write to a teammate.
MessageCheckAnyPair(p) ==
    /\ tpc[p] = "sm_check"
    /\ Goto(p, IF /\ Readable(config)
                  /\ tcall[p].content # ""
                  /\ tcall[p].summary # ""
                  /\ tcall[p].name # ""
                  /\ tcall[p].sender \in MemberNames(config.members)
                  /\ tcall[p].name \in MemberNames(config.members)
                  /\ tcall[p].sender # tcall[p].name
               THEN "sm_plain" ELSE "sm_error")
    /\ UNCHANGED <<config, sessions, panes, inboxes, clock, tcall, local, hist, tvars, ivars, svars>>

\* send_message, type message: read_config (the team must exist) and the
\* tests of content, summary, recipient, sender and of the pair.  No test
\* writes, so their order does not show.
MessageCheck(p) ==
    /\ tpc[p] = "sm_check"
    /\ Goto(p, IF /\ Readable(config)
                  /\ tcall[p].content # ""
                  /\ tcall[p].summary # ""
                  /\ tcall[p].name # ""
                  /\ tcall[p].sender \in MemberNames(config.members)
                  /\ tcall[p].name \in MemberNames(config.members)
                  /\ tcall[p].sender # tcall[p].name
                  /\ ~(tcall[p].sender # "team-lead" /\ tcall[p].name # "team-lead")
               THEN "sm_plain" ELSE "sm_error")
    /\ UNCHANGED <<config, sessions, panes, inboxes, clock, tcall, local, hist, tvars, ivars, svars>>

\* target_color: the color of the recipient if it is a teammate, else None.
target_color(members, recipient) ==
    IF FindTeammate(members, recipient) = {} THEN None
    ELSE members[CHOOSE i \in FindTeammate(members, recipient) : TRUE].color

\* send_message, type message: send_plain_message appends the message to the
\* inbox of the recipient; the push to an opencode session changes no file.
MessageAppend(p) ==
    /\ tpc[p] = "sm_plain"
    /\ inboxes' = [inboxes EXCEPT ![tcall[p].name] =
            Append(@, [from |-> tcall[p].sender, text |-> PlainText(tcall[p].content),
                       read |-> FALSE, summary |-> tcall[p].summary,
                       color |-> target_color(config.members, tcall[p].name)])]
    /\ Goto(p, "sm_done")
    /\ UNCHANGED <<config, sessions, panes, clock, tcall, local, hist, tvars, ivars, svars>>

\* Direct messages between the members of a team that come and go, one call
\* after the other.
MessageNext ==
    \E p \in Procs :
        \/ SerialStartCreateTeam(p)
        \/ CreateTeamOpen(p)
        \/ CreateTeamWrite(p)
        \/ \E name \in Names : SerialStartAddMember(p, name)
        \/ AddMemberRead(p)
        \/ AddMemberWrite(p)
        \/ \E name \in Names : SerialStartRemoveMember(p, name)
        \/ RemoveMemberRead(p)
        \/ RemoveMemberWrite(p)
        \/ \E sender \in Names \cup {"team-lead"}, recipient \in Names \cup {"team-lead", ""},
              content \in {"", "text"}, summary \in {"", "summary"} :
              StartSendPlain(p, sender, recipient, content, summary)
        \/ MessageCheck(p)
        \/ MessageAppend(p)
        \/ SendReturn(p)

\* ------------------------------------------------------------ write_config
\* retries of _replace_with_retry
Retries == 5

\* The *.tmp files without the given one, and with the given one holding the
\* given content.
WithoutTmp(files, path) == [t \in DOMAIN files \ {path} |-> files[t]]
WithTmp(files, path, content) ==
    [t \in DOMAIN files \cup {path} |-> IF t = path THEN content ELSE files[t]]

\* A process enters write_config with the config of the lead and one teammate,
\* on win32 or elsewhere, while no other operation is in progress.
StartWriteConfig(p, name, win32) ==
    /\ TeamIdle
    /\ hist.nops < MaxOps
    /\ hist' = Started
    /\ tcall' = [tcall EXCEPT ![p] = [NoCall EXCEPT !.op = "write_config", !.name = name]]
    /\ local' = [local EXCEPT ![p] =
                    [NoLocal EXCEPT !.config = <<LeadMember, TeammateMember(name, 0, "claude", 0)>>,
                                    !.win32 = win32]]
    /\ Goto(p, "wc_mkstemp")
    /\ UNCHANGED <<config, sessions, panes, inboxes, clock, tvars, ivars, svars>>

\* write_config: tempfile.mkstemp makes an empty file of a new name in the
\* team directory and opens it; it raises, outside the try, when the
\* directory does not exist.
WriteConfigMkstemp(p) ==
    /\ tpc[p] = "wc_mkstemp"
    /\ IF config.kind = "no_file"
       THEN Goto(p, "wc_raised") /\ UNCHANGED <<local, tmp_files>>
       ELSE /\ tmp_files' = WithTmp(tmp_files, hist.nops, TruncatedConfig)
            /\ local' = [local EXCEPT ![p].fd = hist.nops, ![p].tmp_path = hist.nops]
            /\ Goto(p, "wc_write")
    /\ UNCHANGED <<config, sessions, panes, inboxes, clock, tcall, hist, tvars, ivars,
                   active_team, lead_sessions>>

\* write_config: os.write(fd, data), which writes the data or raises.
WriteConfigWrite(p) ==
    /\ tpc[p] = "wc_write"
    /\ \E ok \in BOOLEAN :
          IF ok
          THEN /\ tmp_files' = WithTmp(tmp_files, local[p].tmp_path, TeamConfig(local[p].config))
               /\ Goto(p, "wc_close")
          ELSE Goto(p, "wc_except") /\ UNCHANGED tmp_files
    /\ UNCHANGED <<config, sessions, panes, inboxes, clock, tcall, local, hist, tvars, ivars,
                   active_team, lead_sessions>>

\* write_config: os.close(fd); fd = -1.  A close that raises (an error of the
\* deferred write) has released the descriptor or has not, as the platform
\* does, and leaves the variable fd as it was.
WriteConfigClose(p) ==
    /\ tpc[p] = "wc_close"
    /\ \E ok \in BOOLEAN, released \in BOOLEAN :
          IF ok
          THEN /\ released
               /\ local' = [local EXCEPT ![p].fd = -1, ![p].released = TRUE]
               /\ Goto(p, "wc_replace")
          ELSE /\ local' = [local EXCEPT ![p].released = released]
               /\ Goto(p, "wc_except")
    /\ UNCHANGED <<config, sessions, panes, inboxes, clock, tcall, hist, tvars, ivars, svars>>

\* write_config: one attempt of _replace_with_retry.  os.replace moves the
\* temp file over config.json, or raises PermissionError, after which win32
\* tries again unless it was the last attempt, or raises another OSError.
WriteConfigReplace(p) ==
    /\ tpc[p] = "wc_replace"
    /\ \E outcome \in {"ok", "PermissionError", "OSError"} :
          CASE outcome = "ok" ->
                  /\ config' = tmp_files[local[p].tmp_path]
                  /\ tmp_files' = WithoutTmp(tmp_files, local[p].tmp_path)
                  /\ Goto(p, "wc_returned")
                  /\ UNCHANGED local
            [] outcome = "PermissionError" /\ local[p].win32
                                           /\ local[p].attempt # Retries - 1 ->
                  /\ local' = [local EXCEPT ![p].attempt = @ + 1]
                  /\ UNCHANGED <<config, tmp_files, tpc>>
            [] OTHER ->
                  /\ Goto(p, "wc_except")
                  /\ UNCHANGED <<config, tmp_files, local>>
    /\ UNCHANGED <<sessions, panes, inboxes, clock, tcall, hist, tvars, ivars,
                   active_team, lead_sessions>>

\* write_config, except BaseException: os.close(fd) if fd >= 0, which raises
\* out of the handler when the descriptor is released already and may raise
\* when it is open; then os.unlink of the temp file if it exists; raise.
WriteConfigExcept(p) ==
    /\ tpc[p] = "wc_except"
    /\ \E close_ok \in BOOLEAN :
          /\ (local[p].fd >= 0 /\ local[p].released) => ~close_ok
          /\ local[p].fd < 0 => close_ok
          /\ tmp_files' = IF close_ok /\ local[p].tmp_path \in DOMAIN tmp_files
                          THEN WithoutTmp(tmp_files, local[p].tmp_path)
                          ELSE tmp_files
    /\ Goto(p, "wc_raised")
    /\ UNCHANGED <<config, sessions, panes, inboxes, clock, tcall, local, hist, tvars, ivars,
                   active_team, lead_sessions>>

\* write_config returns, or its exception leaves it.
WriteConfigReturn(p) ==
    /\ tpc[p] \in {"wc_returned", "wc_raised"}
    /\ Finish(p)
    /\ UNCHANGED <<config, sessions, panes, inboxes, clock, hist, tvars, ivars, svars>>

\* The config of a team is written again and again, one call after the other.
WriteConfigNext ==
    \E p \in Procs :
        \/ SerialStartCreateTeam(p)
        \/ CreateTeamOpen(p)
        \/ CreateTeamWrite(p)
        \/ \E name \in Names, win32 \in BOOLEAN : StartWriteConfig(p, name, win32)
        \/ WriteConfigMkstemp(p)
        \/ WriteConfigWrite(p)
        \/ WriteConfigClose(p)
        \/ WriteConfigReplace(p)
        \/ WriteConfigExcept(p)
        \/ WriteConfigReturn(p)

\* ----------------------------------------------------- readers of the tasks
\* The update_task requests that run beside the readers: edges and
\* deletions.  Status changes are left to Spec (C1 is about their cascade).
ReaderRequests == {req \in Requests : req.status \in {None, "deleted"}}

\* A process is inside `with file_lock(lock_path)` of tasks.py.
TasksLocked == \E q \in Procs : tpc[q] \in {"ut_task", "ut_flush", "ut_unlink"}

\* create_task, which takes the lock of the tasks, while the team has fewer
\* than MaxTasks tasks.
LockedCreateTask ==
    /\ ~TasksLocked
    /\ Cardinality(DOMAIN tasks) < MaxTasks
    /\ CreateTask

\* update_task takes the lock and runs phases 1 to 3, which read the files
\* and stage the task and pending_writes in memory.  A request that raises
\* writes nothing and is no step.
StartUpdateTask(p, req) ==
    LET r == update_task(tasks, req.task_id, req.status, req.owner,
                         req.add_blocks, req.add_blocked_by)
        staged == {f \in DOMAIN r.files \ {req.task_id} : r.files[f] # tasks[f]}
    IN  /\ tpc[p] = "idle"
        /\ ~TasksLocked
        /\ r.err = "ok"
        /\ tcall' = [tcall EXCEPT ![p] = [NoCall EXCEPT !.op = "update_task",
                                          !.task_id = req.task_id, !.status = req.status]]
        /\ local' = [local EXCEPT ![p] =
                        [NoLocal EXCEPT
                            !.task = IF req.status = "deleted" THEN tasks[req.task_id]
                                     ELSE r.files[req.task_id],
                            !.pending_writes = [f \in staged |-> r.files[f]]]]
        /\ Goto(p, IF req.status = "deleted" THEN "ut_flush" ELSE "ut_task")
        /\ UNCHANGED <<config, sessions, panes, inboxes, clock, hist, tvars, ivars, svars>>

\* update_task, phase 4: fpath.write_text of the task.
UpdateTaskWrite(p) ==
    /\ tpc[p] = "ut_task"
    /\ tasks' = [tasks EXCEPT ![tcall[p].task_id] = local[p].task]
    /\ created' = 0
    /\ Goto(p, "ut_flush")
    /\ UNCHANGED <<config, sessions, panes, inboxes, clock, tcall, local, hist,
                   assignedIds, ivars, svars>>

\* update_task, phase 4: _flush_pending_writes writes one file of
\* pending_writes (in the order of the dict, which follows the arguments and
\* the directory listing), or is through.
UpdateTaskFlush(p) ==
    /\ tpc[p] = "ut_flush"
    /\ IF DOMAIN local[p].pending_writes = {}
       THEN /\ Goto(p, IF tcall[p].status = "deleted" THEN "ut_unlink" ELSE "ut_done")
            /\ UNCHANGED <<tasks, created, local>>
       ELSE \E f \in DOMAIN local[p].pending_writes :
               /\ tasks' = [tasks EXCEPT ![f] = local[p].pending_writes[f]]
               /\ created' = 0
               /\ local' = [local EXCEPT ![p].pending_writes =
                               [g \in DOMAIN @ \ {f} |-> @[g]]]
               /\ UNCHANGED tpc
    /\ UNCHANGED <<config, sessions, panes, inboxes, clock, tcall, hist,
                   assignedIds, ivars, svars>>

\* update_task, phase 4 of a deletion: fpath.unlink().
UpdateTaskUnlink(p) ==
    /\ tpc[p] = "ut_unlink"
    /\ tasks' = [f \in DOMAIN tasks \ {tcall[p].task_id} |-> tasks[f]]
    /\ created' = 0
    /\ Goto(p, "ut_done")
    /\ UNCHANGED <<config, sessions, panes, inboxes, clock, tcall, local, hist,
                   assignedIds, ivars, svars>>

\* list_tasks of an existing team: team_dir.glob("*.json") lists the files;
\* no lock is taken.
StartListTasks(p) ==
    /\ tpc[p] = "idle"
    /\ tcall' = [tcall EXCEPT ![p] = [NoCall EXCEPT !.op = "list_tasks"]]
    /\ local' = [local EXCEPT ![p] = [NoLocal EXCEPT !.listing = DOMAIN tasks]]
    /\ Goto(p, IF DOMAIN tasks = {} THEN "lt_done" ELSE "lt_read")
    /\ UNCHANGED <<config, sessions, panes, inboxes, clock, hist, tvars, ivars, svars>>

\* list_tasks: f.read_text() of the next listed file, which raises when the
\* file is gone.
ListTasksRead(p) ==
    /\ tpc[p] = "lt_read"
    /\ \E f \in local[p].listing :
          IF f \in DOMAIN tasks
          THEN /\ local' = [local EXCEPT
                               ![p].listing = @ \ {f},
                               ![p].listed = [g \in DOMAIN @ \cup {f} |->
                                                 IF g = f THEN tasks[f] ELSE @[g]]]
               /\ Goto(p, IF local[p].listing = {f} THEN "lt_done" ELSE "lt_read")
          ELSE Goto(p, "lt_raised") /\ UNCHANGED local
    /\ UNCHANGED <<config, sessions, panes, inboxes, clock, tcall, hist, tvars, ivars, svars>>

\* update_task has left the lock and returns; list_tasks returns the tasks
\* it read, or its exception leaves it.
TaskCallReturn(p) ==
    /\ tpc[p] \in {"ut_done", "lt_done", "lt_raised"}
    /\ Finish(p)
    /\ UNCHANGED <<config, sessions, panes, inboxes, clock, hist, tvars, ivars, svars>>

\* Processes that create, update and list the tasks of a team concurrently.
ReadersNext ==
    \/ LockedCreateTask
    \/ \E p \in Procs :
          \/ \E req \in ReaderRequests : StartUpdateTask(p, req)
          \/ UpdateTaskWrite(p)
          \/ UpdateTaskFlush(p)
          \/ UpdateTaskUnlink(p)
          \/ StartListTasks(p)
          \/ ListTasksRead(p)
          \/ TaskCallReturn(p)

\* --------------------------------------------------------------- poll_inbox
\* asyncio.sleep(0.5), in milliseconds.
SleepSlice == 500

\* A poll_inbox starts while the clock is at most this many milliseconds.
MaxPollStart == 500

\* The timeout_ms arguments of a checked run.
PollTimeouts == {0, 1000}

\* The inbox that is polled and appended to.
PollInboxes == {"alice"}

\* A process enters the poll_inbox tool.  deadline is -1 until it is set;
\* reads counts the read_inbox calls.
StartPoll(p, agent, timeout_ms) ==
    /\ pc[p] = "idle"
    /\ clock <= MaxPollStart
    /\ call' = [call EXCEPT ![p] =
                  [op |-> "poll", agent |-> agent, unread_only |-> TRUE,
                   mark_as_read |-> TRUE, msg |-> 0, timeout_ms |-> timeout_ms,
                   deadline |-> -1, wake |-> 0, reads |-> 0]]
    /\ pc' = [pc EXCEPT ![p] = "p_exists"]
    /\ UNCHANGED <<inbox, ilock, raw_list, nextMsg, returned, result, seenRead, delivered, tvars, cvars, svars>>

\* poll_inbox calls read_inbox(unread_only=True, mark_as_read=True), which
\* returns [] when the file is missing and else goes for the lock.
PollExists(p) ==
    /\ pc[p] = "p_exists"
    /\ call' = [call EXCEPT ![p].reads = @ + 1]
    /\ pc' = [pc EXCEPT ![p] = IF inbox[call[p].agent] = NoFile
                               THEN "p_after" ELSE "r_lock"]
    /\ UNCHANGED <<inbox, ilock, raw_list, nextMsg, returned, result, seenRead, delivered, tvars, cvars, svars>>

\* The read_inbox of a poll_inbox leaves the with block and returns its
\* result to poll_inbox.
PollUnlock(p) ==
    /\ pc[p] = "r_unlock"
    /\ call[p].op = "poll"
    /\ ilock' = 0
    /\ pc' = [pc EXCEPT ![p] = "p_after"]
    /\ raw_list' = [raw_list EXCEPT ![p] = <<>>]
    /\ delivered' = Delivered(result[p])
    /\ UNCHANGED <<inbox, call, nextMsg, returned, result, seenRead, tvars, cvars, svars>>

\* A poll_inbox that sleeps once more whatever the time is.
PollAfterNoDeadline(p) ==
    /\ pc[p] = "p_after"
    /\ IF result[p] # <<>>
       THEN /\ pc' = [pc EXCEPT ![p] = "p_return"]
            /\ call' = call
       ELSE /\ call' = [call EXCEPT ![p].deadline = clock + call[p].timeout_ms,
                                    ![p].wake = clock + SleepSlice]
            /\ pc' = [pc EXCEPT ![p] = "p_sleep"]
    /\ UNCHANGED <<inbox, ilock, raw_list, nextMsg, returned, result, seenRead, delivered, tvars, cvars, svars>>

\* poll_inbox after a read_inbox: `if msgs: return`; after the first one
\* deadline = time.time() + timeout_ms / 1000.0; then the test of the while
\* loop, and asyncio.sleep(0.5) or `return []`.
PollAfter(p) ==
    LET deadline == IF call[p].deadline = -1 THEN clock + call[p].timeout_ms
                    ELSE call[p].deadline
    IN  /\ pc[p] = "p_after"
        /\ IF result[p] # <<>>
           THEN /\ pc' = [pc EXCEPT ![p] = "p_return"]
                /\ call' = call
           ELSE /\ call' = [call EXCEPT ![p].deadline = deadline,
                                        ![p].wake = IF clock < deadline
                                                    THEN clock + SleepSlice ELSE @]
                /\ pc' = [pc EXCEPT ![p] = IF clock < deadline THEN "p_sleep" ELSE "p_return"]
        /\ UNCHANGED <<inbox, ilock, raw_list, nextMsg, returned, result, seenRead, delivered, tvars, cvars, svars>>

\* asyncio.sleep(0.5) returns when the time has passed, and poll_inbox calls
\* read_inbox again.
PollWake(p) ==
    /\ pc[p] = "p_sleep"
    /\ clock >= call[p].wake
    /\ pc' = [pc EXCEPT ![p] = "p_exists"]
    /\ UNCHANGED <<inbox, ilock, call, raw_list, nextMsg, returned, result, seenRead, delivered, tvars, cvars, svars>>

\* poll_inbox returns the messages, or [].
PollReturn(p) ==
    /\ pc[p] = "p_return"
    /\ pc' = [pc EXCEPT ![p] = "idle"]
    /\ call' = [call EXCEPT ![p] = Idle]
    /\ result' = [result EXCEPT ![p] = <<>>]
    /\ UNCHANGED <<inbox, ilock, raw_list, nextMsg, returned, seenRead, delivered, tvars, cvars, svars>>

\* Time passes, while a poll_inbox may start or one sleeps.
PollTick ==
    /\ \/ clock < MaxPollStart
       \/ \E p \in Procs : pc[p] = "p_sleep" /\ clock < call[p].wake
    /\ clock' = clock + SleepSlice
    /\ UNCHANGED <<config, sessions, panes, inboxes, tpc, tcall, local, hist, tvars, ivars, svars>>

\* The steps of process p that do not wait: every step of a call in progress
\* except the wait for the lock.
PollRun(p) ==
    \/ AppendExists(p)
    \/ AppendOpen(p)
    \/ AppendInit(p)
    \/ AppendRead(p)
    \/ AppendWrite(p)
    \/ AppendUnlock(p)
    \/ Raise(p)
    \/ PollExists(p)
    \/ ReadRead(p)
    \/ ReadWrite(p)
    \/ PollUnlock(p)
    \/ PollAfter(p)
    \/ PollWake(p)
    \/ PollReturn(p)

\* poll_inbox calls and append_message calls of concurrent processes.
PollNext ==
    \/ PollTick
    \/ \E p \in Procs :
          \/ \E agent \in PollInboxes : StartAppend(p, agent)
          \/ AppendExists(p)
          \/ AppendOpen(p)
          \/ AppendInit(p)
          \/ AppendLock(p)
          \/ AppendRead(p)
          \/ AppendWrite(p)
          \/ AppendUnlock(p)
          \/ Raise(p)
          \/ \E agent \in PollInboxes, timeout_ms \in PollTimeouts :
                StartPoll(p, agent, timeout_ms)
          \/ PollExists(p)
          \/ ReadLock(p)
          \/ ReadRead(p)
          \/ ReadWrite(p)
          \/ PollUnlock(p)
          \/ PollAfter(p)
          \/ PollWake(p)
          \/ PollReturn(p)

\* ------------------------------------------------- tools beside each other
\* A process enters the task_update tool, whatever the other processes do.
EnterTaskUpdate(p, task_id, status, owner) ==
    /\ tpc[p] = "idle"
    /\ owner # None => TotalMessages(inboxes, DOMAIN inboxes) < MaxInbox
    /\ tcall' = [tcall EXCEPT ![p] = [NoCall EXCEPT !.op = "task_update",
                                      !.task_id = task_id, !.status = status,
                                      !.owner = owner]]
    /\ Goto(p, "tu_check")
    /\ UNCHANGED <<config, sessions, panes, inboxes, clock, local, hist, tvars, ivars, svars>>

\* create_team is called for a team that does not exist yet, while no other
\* operation is in progress.
FirstCreateTeam(p) == config = NoConfig /\ SerialStartCreateTeam(p)

\* The teammate that is spawned, removed and made the owner of tasks, and the
\* status arguments of these task_update calls.
AssignNames == {"alice"}

AssignStatusArgs == {None, "completed"}

\* The tools that change the members and the owners of tasks, called by
\* several processes whose steps interleave, on a team that was created and
\* given tasks beforehand.
AssignNext ==
    \/ ToolCreateTask
    \/ \E p \in Procs :
        \/ FirstCreateTeam(p)
        \/ CreateTeamOpen(p)
        \/ CreateTeamWrite(p)
        \/ \E name \in AssignNames : StartSpawn(p, name, "claude", FALSE)
        \/ SpawnValidate(p)
        \/ SpawnColor(p)
        \/ AddMemberRead(p)
        \/ AddMemberWrite(p)
        \/ SpawnInbox(p)
        \/ SpawnLaunch(p)
        \/ SpawnFinalRead(p)
        \/ SpawnFinalWrite(p)
        \/ SpawnExcept(p)
        \/ RemoveMemberRead(p)
        \/ RemoveMemberWrite(p)
        \/ SpawnCleanup(p)
        \/ SpawnRaise(p)
        \/ SpawnReturn(p)
        \/ \E op \in {"force_kill", "process_shutdown_approved"}, agent_name \in AssignNames :
              StartKill(p, op, agent_name, FALSE)
        \/ KillFind(p)
        \/ KillCleanup(p)
        \/ KillReset(p)
        \/ \E task_id \in 1..MaxTasks, status \in AssignStatusArgs, owner \in AssignNames :
              EnterTaskUpdate(p, task_id, status, owner)
        \/ TaskUpdateCheck(p)
        \/ TaskUpdateRun(p)
        \/ TaskUpdateSend(p)
        \/ TaskUpdateReturn(p)

\* ------------------------------------------------------- the advisory locks
\* The inbox, the task ids and the status arguments of the calls that take
\* the locks beside each other.
LockInboxes == {"alice"}

LockTaskIds == {1}

LockStatusArgs == {"pending", "completed"}

\* A process holds tasks/<team>/.lock.
TasksLockHeld == \E q \in Procs : local[q].tasks_lock

\* A process that is in no call enters the task_update tool.
LockStartTaskUpdate(p, task_id, status, owner) ==
    /\ tpc[p] = "idle"
    /\ pc[p] = "idle"
    /\ owner # None =>
          nextMsg + Cardinality({q \in Procs : tcall[q].owner # None /\ pc[q] = "idle"})
              <= MaxMsgs
    /\ tcall' = [tcall EXCEPT ![p] = [NoCall EXCEPT !.op = "task_update",
                                      !.task_id = task_id, !.status = status,
                                      !.owner = owner]]
    /\ Goto(p, "tu_check")
    /\ UNCHANGED <<config, sessions, panes, inboxes, clock, local, hist, tvars, ivars, svars>>

\* update_task: `with file_lock(lock_path)` blocks until the lock of the
\* tasks is free, then holds it.
TaskUpdateLock(p) ==
    /\ tpc[p] = "tu_update"
    /\ ~TasksLockHeld
    /\ local' = [local EXCEPT ![p].tasks_lock = TRUE]
    /\ Goto(p, "tu_locked")
    /\ UNCHANGED <<config, sessions, panes, inboxes, clock, tcall, hist, tvars, ivars, svars>>

\* An update_task whose lock stays held when the with block is left by an
\* exception.
TaskUpdateLockedNoReleaseOnError(p) ==
    /\ tpc[p] = "tu_locked"
    /\ LET r == update_task(tasks, tcall[p].task_id, tcall[p].status, tcall[p].owner, {}, {})
       IN  IF r.err = "ok"
           THEN /\ tasks' = r.files
                /\ local' = [local EXCEPT
                                ![p].task = ReturnedTask(tasks, tcall[p].task_id,
                                                         tcall[p].status, tcall[p].owner),
                                ![p].tasks_lock = FALSE]
                /\ Goto(p, "tu_send")
           ELSE /\ Goto(p, "tu_error")
                /\ UNCHANGED <<tasks, local>>
    /\ created' = 0
    /\ UNCHANGED <<config, sessions, panes, inboxes, clock, tcall, hist, assignedIds, ivars, svars>>

\* update_task inside the with block: phases 1 to 4, or the exception of
\* phase 1 or 2; the with block is left either way, which releases the lock.
TaskUpdateLocked(p) ==
    /\ tpc[p] = "tu_locked"
    /\ LET r == update_task(tasks, tcall[p].task_id, tcall[p].status, tcall[p].owner, {}, {})
       IN  IF r.err = "ok"
           THEN /\ tasks' = r.files
                /\ local' = [local EXCEPT
                                ![p].task = ReturnedTask(tasks, tcall[p].task_id,
                                                         tcall[p].status, tcall[p].owner),
                                ![p].tasks_lock = FALSE]
                /\ Goto(p, "tu_send")
           ELSE /\ Goto(p, "tu_error")
                /\ tasks' = tasks
                /\ local' = [local EXCEPT ![p].tasks_lock = FALSE]
    /\ created' = 0
    /\ UNCHANGED <<config, sessions, panes, inboxes, clock, tcall, hist, assignedIds, ivars, svars>>

\* task_update after update_task returned: send_task_assignment, which
\* enters append_message for the inbox of the owner, when an owner was
\* supplied and the task is not deleted.
TaskUpdateAssign(p) ==
    /\ tpc[p] = "tu_send"
    /\ IF tcall[p].owner # None /\ local[p].task.owner # None
          /\ local[p].task.status # "deleted"
       THEN /\ call' = [call EXCEPT ![p] = [Idle EXCEPT !.op = "append",
                                                        !.agent = local[p].task.owner,
                                                        !.msg = nextMsg]]
            /\ nextMsg' = nextMsg + 1
            /\ pc' = [pc EXCEPT ![p] = "a_exists"]
            /\ Goto(p, "tu_sending")
       ELSE /\ Goto(p, "tu_done")
            /\ UNCHANGED <<call, nextMsg, pc>>
    /\ UNCHANGED <<config, sessions, panes, inboxes, clock, tcall, local, hist, tvars,
                   inbox, ilock, raw_list, result, returned, seenRead, delivered, svars>>

\* task_update ends: append_message returned or raised, no message was to be
\* sent, or a ToolError leaves the tool.
TaskUpdateLeave(p) ==
    /\ \/ tpc[p] \in {"tu_done", "tu_error"}
       \/ tpc[p] = "tu_sending" /\ pc[p] = "idle"
    /\ Finish(p)
    /\ UNCHANGED <<config, sessions, panes, inboxes, clock, hist, tvars, ivars, svars>>

\* create_task for the first task of the team.
LockCreateTask == DOMAIN tasks = {} /\ ToolCreateTask

\* A process that is in no call enters read_inbox with mark_as_read.
LockStartRead(p, agent) == tpc[p] = "idle" /\ StartRead(p, agent, TRUE, TRUE)

\* The steps of a call of process p that wait for nothing.
LockRun(p) ==
    \/ CreateTeamOpen(p)
    \/ CreateTeamWrite(p)
    \/ AddMemberRead(p)
    \/ AddMemberWrite(p)
    \/ TaskUpdateCheck(p)
    \/ TaskUpdateLocked(p)
    \/ TaskUpdateAssign(p)
    \/ TaskUpdateLeave(p)
    \/ AppendExists(p)
    \/ AppendOpen(p)
    \/ AppendInit(p)
    \/ AppendRead(p)
    \/ AppendWrite(p)
    \/ AppendUnlock(p)
    \/ Raise(p)
    \/ ReadExists(p)
    \/ ReadRead(p)
    \/ ReadWrite(p)
    \/ ReadUnlock(p)

\* task_update, append_message and read_inbox by several processes whose
\* steps interleave, on a team that was created and given a teammate and
\* tasks beforehand.
LockNext ==
    \/ LockCreateTask
    \/ \E p \in Procs :
        \/ FirstCreateTeam(p)
        \/ \E name \in LockInboxes : SerialStartAddMember(p, name)
        \/ \E task_id \in LockTaskIds, status \in LockStatusArgs,
              owner \in {None} \cup LockInboxes :
              LockStartTaskUpdate(p, task_id, status, owner)
        \/ TaskUpdateLock(p)
        \/ \E agent \in LockInboxes : LockStartRead(p, agent)
        \/ CreateTeamOpen(p)
        \/ CreateTeamWrite(p)
        \/ AddMemberRead(p)
        \/ AddMemberWrite(p)
        \/ TaskUpdateCheck(p)
        \/ TaskUpdateLocked(p)
        \/ TaskUpdateAssign(p)
        \/ TaskUpdateLeave(p)
        \/ AppendExists(p)
        \/ AppendOpen(p)
        \/ AppendInit(p)
        \/ AppendLock(p)
        \/ AppendRead(p)
        \/ AppendWrite(p)
        \/ AppendUnlock(p)
        \/ Raise(p)
        \/ ReadExists(p)
        \/ ReadLock(p)
        \/ ReadRead(p)
        \/ ReadWrite(p)
        \/ ReadUnlock(p)

\* --------------------------------------------------------- specifications
Init == TasksInit /\ InboxInit /\ TeamInit /\ ServerInit

\* The task engine; the inboxes stay as created.
Spec == Init /\ [][TasksNext]_vars

\* The inboxes; the task files stay as created.
SpecInbox == Init /\ [][InboxNext]_vars

\* The team configuration, several processes.
SpecTeam == Init /\ [][TeamNext]_vars

\* The team configuration under a sequence of operations that do not overlap.
SpecTeamSerial == Init /\ [][TeamSerialNext]_vars

\* The inboxes under a sequence of calls that do not overlap.
SpecInboxSerial == Init /\ [][InboxSerialNext]_vars

\* The shutdown handshake with callers that are bound to no protocol.
SpecShutdown == Init /\ [][ShutdownNext]_vars

\* The task tools and the members of the team.
SpecOwner == Init /\ [][OwnerNext]_vars

\* The team tools of two server sessions.
SpecServer == Init /\ [][ServerNext]_vars

\* The direct messages of a team.
SpecMessage == Init /\ [][MessageNext]_vars

\* The writes of the config of a team.
SpecWriteConfig == Init /\ [][WriteConfigNext]_vars

\* The tasks of a team under concurrent writers and lock-free readers.
SpecReaders == Init /\ [][ReadersNext]_vars

\* poll_inbox beside append_message.
\* spawn_teammate, the two removals and task_update beside each other.
SpecAssign == Init /\ [][AssignNext]_vars

SpecPoll == Init /\ [][PollNext]_vars

\* SpecPoll where the clock advances, every process goes on with the call it
\* is in, and a process that waits for a lock that is free again and again
\* gets it.
SpecPollFair ==
    /\ SpecPoll
    /\ WF_vars(PollTick)
    /\ \A p \in Procs :
          /\ WF_vars(PollRun(p))
          /\ SF_vars(ReadLock(p))
          /\ SF_vars(AppendLock(p))

\* The calls that take the locks beside each other.
SpecLock == Init /\ [][LockNext]_vars

\* SpecLock where every process goes on with the call it is in, and a process
\* that waits for a lock that is free again and again gets it.
SpecLockFair ==
    /\ SpecLock
    /\ \A p \in Procs :
          /\ WF_vars(LockRun(p))
          /\ SF_vars(TaskUpdateLock(p))
          /\ SF_vars(AppendLock(p))
          /\ SF_vars(ReadLock(p))

\* ----------------------------------------------------------------- claims
\* The outcome of a request on the task files of the current state.
Outcome(req) ==
    update_task(tasks, req.task_id, req.status, req.owner,
                req.add_blocks, req.add_blocked_by)

\* <<a, b>>: a is blocked by b.
BlockedByEdges(files) ==
    {e \in (DOMAIN files) \X Ids : e[2] \in files[e[1]].blocked_by}

\* The blocked-by edges a request asks for.
RequestEdges(req) ==
    {<<b, req.task_id>> : b \in req.add_blocks}
    \cup {<<req.task_id, b>> : b \in req.add_blocked_by}

RECURSIVE Closure(_)
Closure(E) ==
    LET E2 == E \cup {<<p[1][1], p[2][2]>> : p \in {q \in E \X E : q[1][2] = q[2][1]}}
    IN IF E2 = E THEN E ELSE Closure(E2)

Cyclic(E) == \E e \in Closure(E) : e[1] = e[2]

\* C1: for every pair of existing tasks a and b, a is in b.blocked_by if and
\* only if b is in a.blocks.
C1_Reciprocal ==
    \A a \in DOMAIN tasks, b \in DOMAIN tasks :
        a \in tasks[b].blocked_by <=> b \in tasks[a].blocks

\* C2: the blocked_by relation of the task files is acyclic in every reachable
\* state, and every request whose edges, together with the edges on disk,
\* close a directed cycle is rejected (also one that supplies both lists).
C2_Acyclic ==
    /\ ~Cyclic(BlockedByEdges(tasks))
    /\ \A req \in Requests :
          Cyclic(BlockedByEdges(tasks) \cup RequestEdges(req))
              => Outcome(req).err # "ok"

\* A request with one id in each list is rejected for a cycle that neither of
\* its two edges closes alone, and an edge is on disk already.
C2_Witness ==
    /\ BlockedByEdges(tasks) # {}
    /\ \E req \in Requests :
          /\ Cardinality(req.add_blocks) = 1
          /\ Cardinality(req.add_blocked_by) = 1
          /\ Outcome(req).err = "cycle"
          /\ ~Cyclic(BlockedByEdges(tasks)
                     \cup {<<b, req.task_id>> : b \in req.add_blocks})
          /\ ~Cyclic(BlockedByEdges(tasks)
                     \cup {<<req.task_id, b>> : b \in req.add_blocked_by})

\* C3: a request that sets the status to in_progress or completed succeeds
\* only if every task in blocked_by, on disk or added by the same request,
\* is completed; otherwise it fails.
C3_BlockersCompleted ==
    \A req \in Requests :
        (Outcome(req).err = "ok" /\ req.status \in {"in_progress", "completed"})
            => \A b \in tasks[req.task_id].blocked_by \cup req.add_blocked_by :
                  b \in DOMAIN tasks /\ tasks[b].status = "completed"

\* Some request moves a task on with a blocker on disk and a fresh one, and
\* another request is rejected for an incomplete blocker.
C3_Witness ==
    /\ \E req \in Requests :
          /\ Outcome(req).err = "ok"
          /\ req.status \in {"in_progress", "completed"}
          /\ tasks[req.task_id].blocked_by # {}
          /\ req.add_blocked_by \ tasks[req.task_id].blocked_by # {}
    /\ \E req \in Requests : Outcome(req).err = "blocked"

\* C4: a successful update_task never lowers the status rank of a task that
\* remains, and a request for a status of lower rank is rejected.
C4_RankMonotone ==
    \A req \in Requests :
        LET r == Outcome(req)
        IN  /\ r.err = "ok" =>
                 \A f \in DOMAIN r.files :
                    STATUS_ORDER(r.files[f].status) >= STATUS_ORDER(tasks[f].status)
            /\ (/\ req.task_id \in DOMAIN tasks
                /\ req.status \in {"pending", "in_progress", "completed"}
                /\ STATUS_ORDER(req.status) < STATUS_ORDER(tasks[req.task_id].status))
                 => r.err # "ok"

\* A completed task is asked to go back to pending and to in_progress; both
\* requests are rejected for their rank.
C4_Witness ==
    \E t \in DOMAIN tasks :
        /\ tasks[t].status = "completed"
        /\ \A st \in {"pending", "in_progress"} :
              update_task(tasks, t, st, None, {}, {}).err = "rank"

\* C5: a request rejected by validation leaves every task file as it was.
C5_RejectedUnchanged ==
    \A req \in Requests :
        Outcome(req).err # "ok" => Outcome(req).files = tasks

\* Requests with edges are rejected for a cycle, for a rank decrease and for
\* an incomplete blocker in one state.
C5_Witness ==
    /\ \E req \in Requests : Outcome(req).err = "cycle"
    /\ \E req \in Requests :
          Outcome(req).err = "rank" /\ req.add_blocks # {}
    /\ \E req \in Requests :
          Outcome(req).err = "blocked" /\ req.add_blocked_by # {}

\* C6: after update_task(t, status=completed) succeeds t is in no other
\* task's blocked_by, and a task whose only blocker that was not completed
\* was t can then be moved to in_progress.
C6_CompletedUnblocks ==
    \A req \in Requests :
        LET r == Outcome(req)
            t == req.task_id
        IN  (r.err = "ok" /\ req.status = "completed") =>
                \A f \in DOMAIN r.files \ {t} :
                    /\ t \notin r.files[f].blocked_by
                    /\ (/\ t \in tasks[f].blocked_by
                        /\ tasks[f].status # "completed"
                        /\ \A b \in tasks[f].blocked_by \ {t} :
                              b \in DOMAIN tasks /\ tasks[b].status = "completed")
                         => update_task(r.files, f, "in_progress", None, {}, {}).err = "ok"

\* A task that blocks a pending task can be completed.
C6_Witness ==
    \E t \in DOMAIN tasks, f \in DOMAIN tasks :
        /\ t \in tasks[f].blocked_by
        /\ tasks[f].status = "pending"
        /\ update_task(tasks, f, "in_progress", None, {}, {}).err = "blocked"
        /\ update_task(tasks, t, "completed", None, {}, {}).err = "ok"

\* C7: update_task(t, status=deleted) succeeds from every status and whatever
\* the blockers; afterwards t has no file and is in neither list of any
\* remaining task, also when the request added edges from t.
C7_DeletedCascades ==
    /\ \A t \in DOMAIN tasks :
          update_task(tasks, t, "deleted", None, {}, {}).err = "ok"
    /\ \A req \in Requests :
          LET r == Outcome(req)
              t == req.task_id
          IN  (r.err = "ok" /\ req.status = "deleted") =>
                  /\ t \notin DOMAIN r.files
                  /\ DOMAIN r.files = DOMAIN tasks \ {t}
                  /\ \A f \in DOMAIN r.files :
                        t \notin r.files[f].blocks \cup r.files[f].blocked_by

\* An in-progress task with a blocker that is not completed, listed in both
\* lists of other tasks, is deleted by a request that also adds an edge.
C7_Witness ==
    \E req \in Requests :
        LET t == req.task_id
        IN  /\ Outcome(req).err = "ok"
            /\ req.status = "deleted"
            /\ req.add_blocks # {}
            /\ tasks[t].status = "in_progress"
            /\ \E b \in tasks[t].blocked_by : tasks[b].status # "completed"
            /\ \E f \in DOMAIN tasks : t \in tasks[f].blocks
            /\ \E f \in DOMAIN tasks : t \in tasks[f].blocked_by

\* C8 as claimed: create_task never assigns an id that an existing task holds
\* or that was assigned to a task that has since been deleted.
C8_NeverReused ==
    [][created' # 0 =>
          /\ created' \notin DOMAIN tasks
          /\ created' \notin assignedIds \ DOMAIN tasks]_vars

\* C8 as amended: create_task assigns an id no existing task holds and that is
\* larger than the id of every existing task (1 when there is none), so the
\* id of a deleted task is not reused while a task with a larger id exists.
C8_AboveEveryExisting ==
    [][created' # 0 =>
          /\ created' \notin DOMAIN tasks
          /\ \A e \in DOMAIN tasks : created' > e
          /\ (DOMAIN tasks = {} => created' = 1)
          /\ DOMAIN tasks' = DOMAIN tasks \cup {created'}]_vars

\* create_task has just assigned an id while the smaller id of a deleted task
\* is free.
C8_Witness ==
    /\ created # 0
    /\ \E d \in assignedIds : d \notin DOMAIN tasks /\ d < created

\* C9: every message whose append_message call returned is in an inbox.
C9_NoLostAppend ==
    \A m \in returned : \E a \in Inboxes : m \in MsgIds(inbox[a])

\* A step of process p that ends its call.
Completes(p) == pc[p] # "idle" /\ pc'[p] = "idle"

\* C10 as claimed: read_inbox(mark_as_read=true) cannot complete while
\* another process holds the inbox lock.
C10_CannotCompleteWhileLocked ==
    [][\A p \in Procs :
          (call[p].op = "read" /\ call[p].mark_as_read /\ Completes(p))
              => ilock \in {0, p}]_vars

\* C10 as amended: read_inbox(mark_as_read=true) on an inbox file that exists
\* takes its read and its rewrite steps holding the lock and completes only
\* as the holder of the lock, and its rewrite removes no message that is in
\* the file.
C10_ReadRewriteUnderLock ==
    [][\A p \in Procs :
          /\ (pc[p] \in {"r_read", "r_write"} /\ pc'[p] # pc[p]) => ilock = p
          /\ (/\ call[p].op = "read"
              /\ call[p].mark_as_read
              /\ Completes(p)
              /\ inbox[call[p].agent] # NoFile) => ilock = p
          /\ (pc[p] = "r_write" /\ pc'[p] # pc[p]) =>
                MsgIds(inbox[call[p].agent]) \subseteq MsgIds(inbox'[call[p].agent])]_vars

\* A mark-as-read has rewritten an inbox in which a message was appended by a
\* call that returned, while another process waits for the lock to append to
\* the same inbox.
C10_Witness ==
    \E p \in Procs, q \in Procs :
        /\ pc[p] = "r_unlock"
        /\ call[p].mark_as_read
        /\ ilock = p
        /\ pc[q] = "a_lock"
        /\ call[q].agent = call[p].agent
        /\ inbox[call[p].agent].msgs # <<>>
        /\ \A i \in 1..Len(inbox[call[p].agent].msgs) :
              inbox[call[p].agent].msgs[i].read

\* The ids of the messages of a file content, in the order of the file.
IdSeq(content) == [i \in 1..Len(content.msgs) |-> content.msgs[i].id]

\* C11: under a sequence of append_message and read_inbox calls no step
\* removes, duplicates or reorders a message of an inbox: the only change to
\* the messages of an inbox is that the write of an append_message to it puts
\* its message behind them; no call raises; and read_inbox(mark_as_read=false)
\* returns the messages of the file in their order, so that the message
\* appended last is in the last position.
C11_AppendOrder ==
    /\ [](\A p \in Procs :
            /\ pc[p] # "raise"
            /\ (pc[p] = "r_done" /\ ~call[p].unread_only) =>
                  /\ result[p] = inbox[call[p].agent].msgs
                  /\ \A i \in 1..Len(result[p]), j \in 1..Len(result[p]) :
                        i < j => result[p][i].id < result[p][j].id)
    /\ [][\A a \in Inboxes :
            \/ IdSeq(inbox'[a]) = IdSeq(inbox[a])
            \/ \E p \in Procs :
                  /\ pc[p] = "a_write"
                  /\ pc'[p] = "a_unlock"
                  /\ call[p].agent = a
                  /\ IdSeq(inbox'[a]) = Append(IdSeq(inbox[a]), call[p].msg)]_vars

\* read_inbox(mark_as_read=false) is about to return two messages, the first
\* one marked as read by a call between the two appends, the second one, the
\* message appended last, unread.
C11_Witness ==
    \E p \in Procs :
        /\ pc[p] = "r_done"
        /\ ~call[p].unread_only
        /\ Len(result[p]) = 2
        /\ result[p][1].read
        /\ ~result[p][2].read
        /\ result[p][2].id = nextMsg - 1

\* C12: a message whose read flag has been true in a file is in no file with
\* a read flag that is false, in any later state.
C12_ReadMonotone ==
    \A a \in Inboxes :
        \A i \in 1..Len(inbox[a].msgs) :
            inbox[a].msgs[i].id \in seenRead => inbox[a].msgs[i].read

\* An inbox holds a message marked as read in front of a message appended
\* after the mark, and an append to this inbox is between its read and its
\* write while a mark-as-read waits for the lock.
C12_Witness ==
    \E p \in Procs, q \in Procs :
        /\ pc[p] = "a_write"
        /\ pc[q] = "r_lock"
        /\ call[q].agent = call[p].agent
        /\ Len(inbox[call[p].agent].msgs) = 1
        /\ inbox[call[p].agent].msgs[1].read

\* C13: the list read_inbox(mark_as_read=true) is about to return holds every
\* message that was unread in the file the call read with read = false.
C13_ReturnedAsObserved ==
    \A p \in Procs :
        (pc[p] = "r_unlock" /\ call[p].mark_as_read) =>
            /\ Len(result[p]) = Len(Result(raw_list[p], call[p].unread_only))
            /\ \A i \in 1..Len(result[p]) :
                  result[p][i] = Result(raw_list[p], call[p].unread_only)[i]

\* The indices of the members of a config that are leads.
Leads(members) == {i \in 1..Len(members) : ~members[i].teammate}

\* C14: every team config that exists holds exactly one lead, and the lead is
\* the one member named team-lead.
C14_OneLead ==
    Readable(config) =>
        /\ Cardinality(Leads(config.members)) = 1
        /\ \A i \in 1..Len(config.members) :
              config.members[i].name = "team-lead" <=> i \in Leads(config.members)

\* The rollback of a spawn_teammate has removed the member it added and a
\* teammate spawned before is a member, next to the lead.
C14_Witness ==
    \E p \in Procs :
        /\ tpc[p] = "s_raise"
        /\ local[p].member_added
        /\ Readable(config)
        /\ Len(config.members) = 2
        /\ tcall[p].name \notin MemberNames(config.members)

\* C15: no two members of a team config have the same name; add_member, also
\* when spawn_teammate calls it, does not go on to its write when the name is
\* that of a member (team-lead included) and leaves config.json as it is, and
\* the handler of spawn_teammate then removes no member.
C15_UniqueNames ==
    /\ [](Readable(config) =>
            \A i \in 1..Len(config.members), j \in 1..Len(config.members) :
                config.members[i].name = config.members[j].name => i = j)
    /\ [][\A p \in Procs :
            /\ (/\ tpc[p] = "am_read"
                /\ tpc'[p] # "am_read"
                /\ tcall[p].name \in MemberNames(config.members))
                  => config' = config /\ tpc'[p] \in {"idle", "s_except"}
            /\ (tpc[p] = "s_except" /\ tpc'[p] # "s_except" /\ ~local[p].member_added)
                  => config' = config /\ tpc'[p] = "s_cleanup"]_vars

\* A spawn_teammate was rejected by add_member for the name of a teammate
\* that is a member, with its target id, and the member is still there.
C15_Witness ==
    \E p \in Procs :
        /\ tpc[p] = "s_cleanup"
        /\ ~local[p].member_added
        /\ Readable(config)
        /\ \E i \in FindTeammate(config.members, tcall[p].name) :
              config.members[i].tmux_pane_id # 0

\* C16: when create_team was called on a team whose config.json exists, then
\* at its end config.json holds what it held before the call.
C16_CreateExistingRejected ==
    [][\A p \in Procs :
          (/\ tcall[p].op = "create_team"
           /\ tpc[p] # "idle"
           /\ tpc'[p] = "idle"
           /\ hist.pre.config # NoConfig) => config' = hist.pre.config]_vars

\* The members of another name.
Others(members, name) ==
    {members[i] : i \in {k \in 1..Len(members) : members[k].name # name}}

\* A step of process p that writes config.json for a config mutator.
MutatorWrite(p) ==
    \/ tpc[p] = "am_write" /\ tpc'[p] # "am_write"
    \/ tpc[p] = "rm_write" /\ tpc'[p] # "rm_write"
    \/ tpc[p] = "s_fwrite" /\ tpc'[p] = "s_return"

\* C17: the write of a config mutator (add_member, remove_member, the last
\* write of spawn_teammate) changes nothing about the members of another
\* name that config.json holds at the write: it drops none of them, brings
\* none back and keeps their target ids, as every serial order does.
C17_MutatorsSerial ==
    [][\A p \in Procs :
          (Readable(config) /\ MutatorWrite(p)) =>
              Others(config'.members, tcall[p].name)
                  = Others(config.members, tcall[p].name)]_vars

\* C18: when spawn_teammate is left by an exception, config.json holds what
\* it held before the call and the opencode server has the sessions it had
\* before the call.
C18_FailedSpawnRestores ==
    \A p \in Procs :
        tpc[p] = "s_raise" =>
            /\ config = hist.pre.config
            /\ sessions = hist.pre.sessions
            /\ local[p].session \notin sessions

\* The message's text is a JSON object of the given type.
IsType(m, type) == "type" \in DOMAIN m.text /\ m.text.type = type

\* The inbox holds a shutdown_request of the given requestId.
HasRequest(box, request_id) ==
    \E j \in 1..Len(box) :
        IsType(box[j], "shutdown_request") /\ box[j].text.requestId = request_id

\* The lead's inbox holds a shutdown_approved from the given teammate.
HasApproved(box, name) ==
    \E j \in 1..Len(box) : IsType(box[j], "shutdown_approved") /\ box[j].text.from = name

\* Process p takes the step of remove_member that writes the config, in
\* process_shutdown_approved.
ShutdownRemoves(p) ==
    /\ tcall[p].op = "process_shutdown_approved"
    /\ tpc[p] = "rm_write"
    /\ config' # config

\* C19: the steps of the shutdown handshake occur in order: every
\* shutdown_approved in team-lead's inbox has a shutdown_request of the same
\* requestId in the inbox of the teammate it is from, and
\* process_shutdown_approved removes a teammate only when a shutdown_approved
\* from it is in team-lead's inbox.
C19_HandshakeInOrder ==
    /\ [](\A i \in 1..Len(inboxes["team-lead"]) :
              LET m == inboxes["team-lead"][i]
              IN  IsType(m, "shutdown_approved") =>
                      /\ m.text.from \in Names
                      /\ HasRequest(inboxes[m.text.from], m.text.requestId))
    /\ [][\A p \in Procs :
              ShutdownRemoves(p) => HasApproved(inboxes["team-lead"], tcall[p].name)]_vars

\* C19, amended: the tools keep what callers need to run the handshake in
\* order, and do not enforce the order.  A shutdown_request lies only in the
\* inbox of the teammate its requestId names and is from team-lead; a
\* shutdown_approved lies only in team-lead's inbox and is from a teammate
\* name; the shutdown_approved a shutdown_response appends carries the
\* request_id its caller supplied, so it follows the request when the caller
\* took the request_id from its inbox; no message leaves an inbox or moves in
\* it; process_shutdown_approved removes the teammate it is called for and
\* no other member.
C19_HandshakeSupported ==
    /\ [](\A a \in DOMAIN inboxes : \A i \in 1..Len(inboxes[a]) :
              LET m == inboxes[a][i]
              IN  /\ IsType(m, "shutdown_request") =>
                         /\ a \in Names
                         /\ m.from = "team-lead"
                         /\ m.text.requestId.to = a
                  /\ IsType(m, "shutdown_approved") =>
                         /\ a = "team-lead"
                         /\ m.from \in Names
                         /\ m.text.from = m.from)
    /\ [][/\ \A a \in DOMAIN inboxes :
                /\ Len(inboxes[a]) <= Len(inboxes'[a])
                /\ SubSeq(inboxes'[a], 1, Len(inboxes[a])) = inboxes[a]
          /\ \A p \in Procs :
                /\ (tcall[p].op = "shutdown_response" /\ tcall[p].approve
                        /\ tpc[p] = "sm_append" /\ tpc'[p] = "sm_done") =>
                      LET box == inboxes'["team-lead"]
                          m == box[Len(box)]
                      IN  /\ Len(box) = Len(inboxes["team-lead"]) + 1
                          /\ IsType(m, "shutdown_approved")
                          /\ m.text.from = tcall[p].name
                          /\ m.text.requestId = tcall[p].request_id
                          /\ HasRequest(inboxes[tcall[p].name], tcall[p].request_id)
                                => HasRequest(inboxes'[tcall[p].name], m.text.requestId)
                /\ ShutdownRemoves(p) =>
                      /\ FindTeammate(config.members, tcall[p].name) # {}
                      /\ Others(config'.members, tcall[p].name)
                            = Others(config.members, tcall[p].name)
                      /\ tcall[p].name \notin MemberNames(config'.members)]_vars

\* The handshake is complete: alice holds a shutdown_request, team-lead holds
\* the shutdown_approved of the same requestId from alice, and alice, who was
\* spawned, is no member any more.
C19_Witness ==
    /\ \E i \in 1..Len(inboxes["team-lead"]) :
          LET m == inboxes["team-lead"][i]
          IN  /\ IsType(m, "shutdown_approved")
              /\ m.text.from = "alice"
              /\ HasRequest(inboxes["alice"], m.text.requestId)
    /\ Readable(config)
    /\ "alice" \notin MemberNames(config.members)
    /\ TeamIdle
    /\ hist.nops = MaxOps

\* The message is the shutdown_approved the claim describes for the sender,
\* the request id and the member of the config.
ApprovedAsClaimed(m, sender, request_id, member) ==
    /\ m.from = sender
    /\ m.read = FALSE
    /\ IsType(m, "shutdown_approved")
    /\ m.text.from = sender
    /\ m.text.requestId = request_id
    /\ m.text.paneId = member.tmux_pane_id
    /\ m.text.backendType = member.backend_type
    /\ IF member.opencode_session_id = 0
       THEN "sessionId" \notin DOMAIN m.text
       ELSE "sessionId" \in DOMAIN m.text /\ m.text.sessionId = member.opencode_session_id

\* C20: send_message(type=shutdown_response, approve=true) from a teammate
\* appends exactly one message to team-lead's inbox, whose JSON text has type
\* shutdown_approved, from the sender, requestId the supplied request_id, and
\* paneId, backendType and sessionId of that member in the config at that
\* moment, sessionId being absent when the member has no session; the config
\* is unchanged; a sender that is no teammate is rejected and no inbox changes.
C20_ApprovedPayload ==
    [][\A p \in Procs :
          (tcall[p].op = "shutdown_response" /\ tpc'[p] # tpc[p]) =>
              /\ config' = config
              /\ (tpc[p] = "sm_read" /\ FindTeammate(config.members, tcall[p].name) = {}) =>
                      tpc'[p] = "sm_error" /\ inboxes' = inboxes
              /\ (tpc[p] = "sm_read" /\ FindTeammate(config.members, tcall[p].name) # {}) =>
                      tpc'[p] = "sm_append" /\ inboxes' = inboxes
              /\ tpc[p] = "sm_error" => inboxes' = inboxes /\ tpc'[p] = "idle"
              /\ tpc[p] = "sm_done" => inboxes' = inboxes
              /\ (tpc[p] = "sm_append" /\ tcall[p].approve) =>
                      LET hits == FindTeammate(config.members, tcall[p].name)
                          box == inboxes'["team-lead"]
                      IN  /\ hits # {}
                          /\ Len(box) = Len(inboxes["team-lead"]) + 1
                          /\ inboxes' = [inboxes EXCEPT !["team-lead"] = Append(@, box[Len(box)])]
                          /\ ApprovedAsClaimed(box[Len(box)], tcall[p].name, tcall[p].request_id,
                                               config.members[CHOOSE i \in hits : TRUE])]_vars

\* The step of process p is the last one of a force_kill_teammate or
\* process_shutdown_approved that found its teammate.
KillReturns(p) == tpc[p] = "k_reset" /\ tpc'[p] = "idle"

\* The step of process p is the one that rejects the agent name of a
\* force_kill_teammate or process_shutdown_approved.
KillRejects(p) == tpc[p] = "k_find" /\ tpc'[p] = "idle"

\* C21: when process_shutdown_approved or force_kill_teammate returns for
\* teammate a, a is no member and owns no task: a task a owned that was
\* completed is completed without owner, any other task a owned is pending
\* without owner, every other task is as it was; both operations reject
\* team-lead and a name that no teammate has, and then change no state.
C21_KillResetsOwner ==
    [][\A p \in Procs :
          LET a == tcall[p].name
          IN  /\ KillReturns(p) =>
                    /\ Readable(config')
                    /\ a \notin MemberNames(config'.members)
                    /\ DOMAIN tasks' = DOMAIN tasks
                    /\ \A t \in DOMAIN tasks :
                          /\ tasks'[t].owner # a
                          /\ tasks[t].owner # a => tasks'[t] = tasks[t]
                          /\ tasks[t].owner = a =>
                                /\ tasks'[t].owner = None
                                /\ tasks'[t].status =
                                      IF tasks[t].status = "completed"
                                      THEN "completed" ELSE "pending"
                                /\ tasks'[t].blocks = tasks[t].blocks
                                /\ tasks'[t].blocked_by = tasks[t].blocked_by
              /\ (tpc[p] = "k_find" /\ tpc'[p] # "k_find") =>
                    (KillRejects(p) <=>
                        (a = "team-lead" \/ ~Readable(config)
                            \/ FindTeammate(config.members, a) = {}))
              /\ KillRejects(p) =>
                    /\ UNCHANGED <<config, sessions, panes, inboxes, tasks>>
                    /\ hist.pre = [config |-> config, sessions |-> sessions]]_vars

\* process_shutdown_approved or force_kill_teammate for alice is about to
\* reset the tasks: alice is no member any more and owns a task in progress,
\* and another task is completed or has another owner.
C21_Witness ==
    \E p \in Procs :
        /\ tpc[p] = "k_reset"
        /\ tcall[p].name = "alice"
        /\ "alice" \notin MemberNames(config.members)
        /\ \E t \in DOMAIN tasks, u \in DOMAIN tasks :
              /\ tasks[t].owner = "alice"
              /\ tasks[t].status = "in_progress"
              /\ \/ tasks[u].owner = "alice" /\ tasks[u].status = "completed"
                 \/ tasks[u].owner = "team-lead"

\* C24: a task_update call appends exactly one task_assignment message, with
\* the id of the task, to the inbox of the owner if and only if it supplied an
\* owner, the update succeeded and the resulting status is not deleted; a call
\* rejected because the owner is no member, or because update_task failed,
\* appends no message and changes no task.
C24_AssignmentSent ==
    [][\A p \in Procs :
          (tcall[p].op = "task_update" /\ tpc'[p] # tpc[p]) =>
              LET owner == tcall[p].owner
                  task_id == tcall[p].task_id
                  member == Readable(config) /\ owner \in MemberNames(config.members)
              IN  /\ config' = config
                  /\ tpc[p] # "tu_update" => tasks' = tasks
                  /\ tpc[p] # "tu_send" => inboxes' = inboxes
                  /\ tpc[p] = "tu_check" =>
                        (tpc'[p] = "tu_error" <=> (owner # None /\ ~member))
                  /\ (tpc[p] = "tu_update" /\ tpc'[p] = "tu_error") =>
                        /\ tasks' = tasks
                        /\ update_task(tasks, task_id, tcall[p].status, owner, {}, {}).err # "ok"
                  /\ tpc[p] = "tu_error" => tpc'[p] = "idle"
                  /\ tpc[p] = "tu_send" =>
                        IF owner # None /\ task_id \in DOMAIN tasks
                        THEN /\ tasks[task_id].owner = owner
                             /\ \E m \in {inboxes'[owner][Len(inboxes'[owner])]} :
                                   /\ inboxes' = [inboxes EXCEPT ![owner] = Append(@, m)]
                                   /\ IsType(m, "task_assignment")
                                   /\ m.text.taskId = task_id
                                   /\ ~m.read
                        ELSE inboxes' = inboxes]_vars

\* A task_update that gave task 2, which is completed, to alice has sent its
\* message: the last message of alice's inbox is the task_assignment of task 2.
C24_Witness ==
    \E p \in Procs :
        /\ tpc[p] = "tu_done"
        /\ tcall[p].owner = "alice"
        /\ tcall[p].task_id = 2
        /\ tasks[2].status = "completed"
        /\ inboxes["alice"] # <<>>
        /\ LET m == inboxes["alice"][Len(inboxes["alice"])]
           IN  IsType(m, "task_assignment") /\ m.text.taskId = 2

\* A task_update for an id that has no file fails.
DeletedIsTerminal ==
    \A p \in Procs :
        (tpc[p] = "tu_update" /\ tcall[p].task_id \notin DOMAIN tasks) =>
            tpc'[p] = "tu_error" /\ tasks' = tasks

\* C26: no operation of the task engine (update_task, reset_owner_tasks) moves
\* an existing task to a status of lower rank, and no update of a deleted task
\* succeeds.
C26_NoRankDecrease ==
    [][/\ \A t \in DOMAIN tasks \cap DOMAIN tasks' :
             STATUS_ORDER(tasks'[t].status) >= STATUS_ORDER(tasks[t].status)
       /\ DeletedIsTerminal]_vars

\* C26, amended: update_task moves no existing task to a status of lower rank
\* and fails for an id that has no file; the one step that lowers a rank is
\* reset_owner_tasks, which moves the tasks in progress of the departed agent
\* back to pending and leaves the rank of every other task.
C26_RankDecreaseOnlyByReset ==
    [][/\ \A t \in DOMAIN tasks \cap DOMAIN tasks' :
             STATUS_ORDER(tasks'[t].status) < STATUS_ORDER(tasks[t].status) =>
                 \E p \in Procs :
                     /\ KillReturns(p)
                     /\ tasks[t].owner = tcall[p].name
                     /\ tasks[t].status = "in_progress"
                     /\ tasks'[t].status = "pending"
       /\ \A p \in Procs :
             tpc[p] = "tu_update" =>
                 \A t \in DOMAIN tasks \cap DOMAIN tasks' :
                     STATUS_ORDER(tasks'[t].status) >= STATUS_ORDER(tasks[t].status)
       /\ DeletedIsTerminal]_vars

\* reset_owner_tasks is about to run for an agent that owns a task in progress
\* and a completed one, while a task_update to a lower status is rejected.
C26_Witness ==
    \E p \in Procs :
        /\ tpc[p] = "k_reset"
        /\ \E t \in DOMAIN tasks, u \in DOMAIN tasks :
              /\ tasks[t].owner = tcall[p].name
              /\ tasks[t].status = "in_progress"
              /\ tasks[u].owner = tcall[p].name
              /\ tasks[u].status = "completed"
              /\ update_task(tasks, u, "in_progress", None, {}, {}).err = "rank"

\* The teams that exist and were created by the server session.
CreatedBy(s) == {t \in TeamNames : lead_sessions[t] = s}

\* C22: across the team_create and team_delete calls of a server session, at
\* most one team created by that session exists at any time: team_create fails
\* while the session has an active team, and succeeds only when no team the
\* session created exists.
C22_OneTeamPerSession ==
    /\ [](\A s \in ServerSessions : Cardinality(CreatedBy(s)) <= 1)
    /\ [][\A p \in Procs :
              /\ (tpc[p] = "tc_check" /\ active_team[tcall[p].session] # None) =>
                     tpc'[p] = "tc_error"
              /\ (tpc[p] = "tc_check" /\ tpc'[p] = "tc_create") =>
                     CreatedBy(tcall[p].session) = {}]_vars

\* The member list holds a teammate.
HasTeammate(members) == \E i \in 1..Len(members) : members[i].teammate

\* C23: delete_team fails whenever the config of the team holds a teammate,
\* and then leaves the subtrees teams/<team> and tasks/<team> as they are; when
\* the lead is the only member it removes both subtrees.
C23_DeleteTeam ==
    [][\A p \in Procs :
          (tcall[p].op = "team_delete" /\ tcall[p].name = MainTeam /\ tpc'[p] # tpc[p]) =>
              /\ tpc[p] = "td_read" =>
                    IF ~Readable(config) \/ HasTeammate(config.members)
                    THEN tpc'[p] = "td_error"
                    ELSE tpc'[p] = "td_rm"
              /\ tpc[p] \in {"td_read", "td_error", "td_done"} =>
                    UNCHANGED <<config, inboxes, tasks>>
              /\ tpc[p] = "td_rm" =>
                    /\ MemberNames(config.members) = {"team-lead"}
                    /\ config' = NoConfig
                    /\ \A a \in DOMAIN inboxes' : inboxes'[a] = <<>>
                    /\ DOMAIN tasks' = {}]_vars

\* team_delete has removed the subtrees of a team that had had a teammate, a
\* message in an inbox and a task.
C23_Witness ==
    \E p \in Procs :
        /\ tpc[p] = "td_done"
        /\ tcall[p].name = MainTeam
        /\ config = NoConfig
        /\ DOMAIN tasks = {}
        /\ assignedIds # {}
        /\ hist.nspawned > 0
        /\ hist.pre.config # NoConfig

\* The step of process p is the return of a spawn_teammate that succeeded.
SpawnSucceeds(p) == tpc[p] = "s_return" /\ tpc'[p] = "idle"

\* The teammate of the given name in the config.
Teammate(name) ==
    config.members[CHOOSE i \in FindTeammate(config.members, name) : TRUE]

\* C27: the nth teammate that is spawned with success on a team has the color
\* palette[(n-1) mod 8], whatever the other operations of the sequence are
\* (colors are the indices 0..7 of blue, green, yellow, purple, orange, pink,
\* cyan, red).
C27_NthColor ==
    [][\A p \in Procs :
          SpawnSucceeds(p) =>
              /\ FindTeammate(config.members, tcall[p].name) # {}
              /\ Teammate(tcall[p].name).color = hist.nspawned % PaletteSize]_vars

\* A member list of the lead and k teammates.
LeadAnd(k) ==
    <<LeadMember>> \o [i \in 1..k |-> TeammateMember("alice", 0, "claude", 0)]

\* assign_color counts the teammates and not the lead, and starts again with
\* the first color after the last one.
PaletteWraps ==
    \A k \in 0..(2 * PaletteSize) : assign_color(LeadAnd(k)) = k % PaletteSize

\* C27, amended: the color of a spawned teammate is palette[k mod 8], k being
\* the number of teammates in the member list when the color is assigned;
\* that is palette[(n-1) mod 8] for the nth spawn as long as none of the
\* teammates spawned before has been removed.
C27_ColorByCount ==
    /\ []PaletteWraps
    /\ [][\A p \in Procs :
              SpawnSucceeds(p) =>
                  /\ FindTeammate(config.members, tcall[p].name) # {}
                  /\ Teammate(tcall[p].name).color
                        = (Len(non_lead(config.members)) - 1) % PaletteSize
                  /\ Len(non_lead(config.members)) = hist.nspawned + 1 =>
                        Teammate(tcall[p].name).color = hist.nspawned % PaletteSize]_vars

\* The second spawn_teammate of a team is about to return the second teammate
\* of the config, whose color is the second of the palette.
C27_Witness ==
    \E p \in Procs :
        /\ tpc[p] = "s_return"
        /\ hist.nspawned = 1
        /\ Len(non_lead(config.members)) = 2
        /\ Teammate(tcall[p].name).color = 1

\* C28: send_message(type=message) appends exactly one message, to the inbox
\* of the recipient and to no other, only when content, summary and recipient
\* are non-empty, sender and recipient are members of the team and differ, and
\* one of them is team-lead; in every other case it ends with an error and no
\* inbox changes.
C28_MessageDelivery ==
    [][\A p \in Procs :
          (tcall[p].op = "message" /\ tpc'[p] # tpc[p]) =>
              LET sender == tcall[p].sender
                  recipient == tcall[p].name
                  Deliverable ==
                      /\ tcall[p].content # ""
                      /\ tcall[p].summary # ""
                      /\ recipient # ""
                      /\ Readable(config)
                      /\ {sender, recipient} \subseteq MemberNames(config.members)
                      /\ sender # recipient
                      /\ "team-lead" \in {sender, recipient}
              IN  /\ config' = config
                  /\ tpc[p] = "sm_check" =>
                        /\ inboxes' = inboxes
                        /\ tpc'[p] = IF Deliverable THEN "sm_plain" ELSE "sm_error"
                  /\ tpc[p] = "sm_plain" =>
                        /\ Deliverable
                        /\ tpc'[p] = "sm_done"
                        /\ \E m \in {inboxes'[recipient][Len(inboxes'[recipient])]} :
                              /\ inboxes' = [inboxes EXCEPT ![recipient] = Append(@, m)]
                              /\ m.from = sender
                              /\ m.text = PlainText(tcall[p].content)
                              /\ m.summary = tcall[p].summary
                              /\ ~m.read
                  /\ tpc[p] \in {"sm_error", "sm_done"} =>
                        inboxes' = inboxes /\ tpc'[p] = "idle"]_vars

\* A message from the teammate alice to team-lead has been delivered, while
\* bob is a teammate too.
C28_Witness ==
    \E p \in Procs :
        /\ tpc[p] = "sm_done"
        /\ tcall[p].op = "message"
        /\ tcall[p].sender = "alice"
        /\ tcall[p].name = "team-lead"
        /\ "bob" \in MemberNames(config.members)
        /\ inboxes["team-lead"] # <<>>
        /\ inboxes["team-lead"][Len(inboxes["team-lead"])].from = "alice"

\* C29: after write_config returns or raises, the team directory holds no
\* *.tmp file that this call created, and when it raised config.json holds
\* what it held before the call.
C29_NoTempFileLeft ==
    \A p \in Procs :
        (tcall[p].op = "write_config" /\ tpc[p] \in {"wc_returned", "wc_raised"}) =>
            /\ hist.nops \notin DOMAIN tmp_files
            /\ tpc[p] = "wc_raised" => config = hist.pre.config

\* C25: the tasks that a list_tasks without the lock returns while update_task
\* calls run hold no partial edge update: b is in a.blocks exactly when a is
\* in b.blocked_by, and the file of every task they refer to exists.
C25_NoPartialEdges ==
    \A p \in Procs :
        (tcall[p].op = "list_tasks" /\ tpc[p] = "lt_done") =>
            LET seen == local[p].listed
            IN  \A a \in DOMAIN seen :
                   /\ seen[a].blocks \cup seen[a].blocked_by \subseteq DOMAIN tasks
                   /\ \A b \in DOMAIN seen :
                         b \in seen[a].blocks <=> a \in seen[b].blocked_by

\* C30: whatever the interleaving of append_message calls and of
\* read_inbox(unread_only=True, mark_as_read=True) calls (poll_inbox makes
\* such calls), no message is returned by two of these reading calls, and no
\* message that one of them returned is unread in a file afterwards.
C30_DeliveredOnce ==
    /\ delivered.again = {}
    /\ \A a \in Inboxes : \A i \in 1..Len(inbox[a].msgs) :
          ~inbox[a].msgs[i].read => inbox[a].msgs[i].id \notin delivered.once

\* A reading call has returned a message, and a later one of the same inbox
\* is about to return without it while the file holds it.
C30_Witness ==
    \E p \in Procs :
        /\ pc[p] = "r_unlock"
        /\ call[p].unread_only /\ call[p].mark_as_read
        /\ \E i \in 1..Len(inbox[call[p].agent].msgs) :
              /\ inbox[call[p].agent].msgs[i].id \in delivered.once
              /\ \A k \in 1..Len(result[p]) :
                    result[p][k].id # inbox[call[p].agent].msgs[i].id

\* The list a call read, with read = true for the messages of its result.
FlippedInResult(all_msgs, res) ==
    [i \in 1..Len(all_msgs) |->
        IF \E k \in 1..Len(res) : res[k] = all_msgs[i]
        THEN [all_msgs[i] EXCEPT !.read = TRUE]
        ELSE all_msgs[i]]

\* C31: the only step of read_inbox that changes a file is the rewrite of
\* read_inbox(mark_as_read=true), taken with the lock and a non-empty result;
\* it writes the list the call read with read = true for the messages of the
\* result and nothing else changed, which is the file as it was but for these
\* flags whenever the file still holds what the call read.
\* read_inbox(mark_as_read=false) never holds the lock, and a call on a
\* missing inbox returns at once and creates no file.
C31_ReadFrame ==
    [][\A p \in Procs :
          (call[p].op = "read" /\ pc'[p] # pc[p]) =>
              /\ IF pc[p] = "r_write"
                 THEN /\ call[p].mark_as_read
                      /\ result[p] # <<>>
                      /\ ilock = p
                      /\ inbox' = [inbox EXCEPT ![call[p].agent] =
                                      List(FlippedInResult(raw_list[p], result[p]))]
                      /\ inbox[call[p].agent] = List(raw_list[p]) =>
                            /\ IdSeq(inbox'[call[p].agent]) = IdSeq(inbox[call[p].agent])
                            /\ \A i \in 1..Len(raw_list[p]) :
                                  \/ inbox'[call[p].agent].msgs[i] = inbox[call[p].agent].msgs[i]
                                  \/ /\ \E k \in 1..Len(result[p]) :
                                           result[p][k].id = raw_list[p][i].id
                                     /\ inbox'[call[p].agent].msgs[i] =
                                           [inbox[call[p].agent].msgs[i] EXCEPT !.read = TRUE]
                 ELSE inbox' = inbox
              /\ (pc[p] = "r_read" /\ pc'[p] = "r_write") =>
                    Result(inbox[call[p].agent].msgs, call[p].unread_only) # <<>>
              /\ ~call[p].mark_as_read => (ilock' = ilock /\ ilock # p)
              /\ (pc[p] = "r_exists" /\ inbox[call[p].agent] = NoFile) =>
                    pc'[p] = "idle"]_vars

\* An unread-only mark-as-read has rewritten a file of two messages of which
\* it returns one, the other one having been read before.
C31_Witness ==
    \E p \in Procs :
        /\ pc[p] = "r_unlock"
        /\ call[p].mark_as_read
        /\ call[p].unread_only
        /\ Len(raw_list[p]) = 2
        /\ Len(result[p]) = 1
        /\ raw_list[p][1].read
        /\ inbox[call[p].agent] = List(Marked(raw_list[p]))

\* The message is the raw prompt, unread, from team-lead.
IsPrompt(m) == m.from = "team-lead" /\ m.text = PlainText("prompt") /\ ~m.read

\* The target ids of the members of a config.
TargetIds(content) ==
    {content.members[i].tmux_pane_id : i \in 1..Len(content.members)} \ {0}

\* C32: when spawn_teammate launches the multiplexer target, the teammate is
\* a member of the config with an empty target id and its inbox holds the
\* prompt as an unread message from team-lead; and a target id comes into
\* the config only by the last write of the spawn_teammate whose launch
\* returned it, for its teammate.
C32_SpawnOrder ==
    [][/\ \A p \in Procs :
            (tpc[p] = "s_launch" /\ tpc'[p] # "s_launch") =>
                /\ Readable(config)
                /\ \E i \in FindTeammate(config.members, tcall[p].name) :
                      config.members[i].tmux_pane_id = 0
                /\ \E j \in 1..Len(inboxes[tcall[p].name]) :
                      IsPrompt(inboxes[tcall[p].name][j])
       /\ \A id \in TargetIds(config') \ TargetIds(config) :
            \E p \in Procs :
                /\ tpc[p] = "s_fwrite"
                /\ tpc'[p] = "s_return"
                /\ local[p].pane = id
                /\ id \in panes
                /\ \E i \in FindTeammate(config'.members, tcall[p].name) :
                      config'.members[i].tmux_pane_id = id]_vars

\* The launch of a spawn_teammate has returned a target id, and the config
\* holds the teammate without it.
C32_Witness ==
    \E p \in Procs :
        /\ tpc[p] = "s_fread"
        /\ local[p].pane \in panes
        /\ \E i \in FindTeammate(config.members, tcall[p].name) :
              config.members[i].tmux_pane_id = 0
        /\ inboxes[tcall[p].name] # <<>>

\* C33 as claimed: when spawn_teammate returns the member, the inbox of the
\* teammate holds exactly one message, the unread prompt from team-lead.
C33_ExactlyOnePrompt ==
    \A p \in Procs :
        tpc[p] = "s_return" =>
            /\ Len(inboxes[tcall[p].name]) = 1
            /\ IsPrompt(inboxes[tcall[p].name][1])

\* C33 as amended: when spawn_teammate returns the member, the last message
\* of the inbox of the teammate is the unread prompt from team-lead; and the
\* only step of the team operations that changes an inbox is the append of
\* spawn_teammate, which puts one message behind those the inbox holds, so
\* that the messages of earlier spawns of the name stay in front of it.
C33_PromptAppended ==
    /\ [](\A p \in Procs :
            tpc[p] = "s_return" =>
                /\ inboxes[tcall[p].name] # <<>>
                /\ IsPrompt(inboxes[tcall[p].name][Len(inboxes[tcall[p].name])]))
    /\ [][inboxes' # inboxes =>
            \E p \in Procs :
                /\ tpc[p] = "s_inbox"
                /\ \E m \in {inboxes'[tcall[p].name][Len(inboxes'[tcall[p].name])]} :
                      /\ IsPrompt(m)
                      /\ inboxes' = [inboxes EXCEPT ![tcall[p].name] = Append(@, m)]]_vars

\* spawn_teammate returns the member of a name whose inbox holds the prompt
\* of an earlier spawn in front of the new one.
C33_Witness ==
    \E p \in Procs :
        /\ tpc[p] = "s_return"
        /\ Len(inboxes[tcall[p].name]) = 2
        /\ IsPrompt(inboxes[tcall[p].name][2])

ConfigReads == {"am_read", "rm_read", "s_color", "s_fread", "k_find"}

\* C35: a read_config that runs beside create_team, add_member, remove_member
\* or the last write of spawn_teammate finds no config.json or a complete
\* one, never a file that is written in part.
C35_AtomicConfigWrites ==
    [][\A p \in Procs :
          (tpc[p] \in ConfigReads /\ tpc'[p] # tpc[p]) =>
              config.kind \in {"no_file", "config"}]_vars

\* The owners of the tasks that are no member of the team config.
StrayOwners ==
    {tasks[id].owner : id \in DOMAIN tasks} \ ({None} \cup MemberNames(config.members))

\* C36: in every state that spawn_teammate (with its rollback), task_update,
\* force_kill_teammate and process_shutdown_approved reach in any
\* interleaving, the owner of every task is absent or the name of a current
\* member of the team config.
C36_OwnerIsMember == StrayOwners = {}

\* The same in the states where no call is in progress.
C36_OwnerIsMemberAtRest == TeamIdle => StrayOwners = {}

\* The pairs of a task that is in_progress or completed and a task in its
\* blocked_by that is pending or in_progress.
Unfinished(files) ==
    {pair \in (DOMAIN files) \X (DOMAIN files) :
        /\ files[pair[1]].status \in {"in_progress", "completed"}
        /\ pair[2] \in files[pair[1]].blocked_by
        /\ files[pair[2]].status \in {"pending", "in_progress"}}

C39_ReferencesExist ==
    \A t \in DOMAIN tasks :
        tasks[t].blocks \cup tasks[t].blocked_by \subseteq DOMAIN tasks \ {t}

\* A task was deleted, a task that remains holds an edge, and requests for a
\* self reference and for a missing reference are rejected.
C39_Witness ==
    /\ assignedIds \ DOMAIN tasks # {}
    /\ \E t \in DOMAIN tasks :
          /\ tasks[t].blocks # {}
          /\ update_task(tasks, t, None, None, {t}, {}).err = "self"
          /\ \E b \in assignedIds \ DOMAIN tasks :
                update_task(tasks, t, None, None, {}, {b}).err = "missing_ref"

\* C38: whenever no spawn_teammate, force_kill_teammate or
\* process_shutdown_approved is in progress, every multiplexer target that was
\* launched and not killed is the target id of a member of the team config.
C38_TargetsRecorded ==
    (\A p \in Procs :
        tcall[p].op \notin {"spawn", "force_kill", "process_shutdown_approved"})
        => panes \subseteq TargetIds(config)

\* Process p waits at a `with file_lock(...)`; process p holds a lock.
WaitsForLock(p) == tpc[p] = "tu_update" \/ pc[p] \in {"a_lock", "r_lock"}

HoldsLock(p) == local[p].tasks_lock \/ ilock = p

\* Process p is in a call of the tools.
InCall(p) == tpc[p] # "idle" \/ pc[p] # "idle"

\* C40: no process holds the lock of the tasks and the lock of the inboxes
\* together or waits for one while it holds the other, also inside
\* task_update; a call that ends, by a return or by an exception, holds no
\* lock; and under fair scheduling every process that waits for a lock
\* obtains it, so there is no deadlock.
C40_LocksNotNested ==
    /\ [](\A p \in Procs :
            /\ ~(local[p].tasks_lock /\ ilock = p)
            /\ pc[p] \in {"a_lock", "r_lock"} => ~local[p].tasks_lock
            /\ tpc[p] = "tu_update" => ilock # p
            /\ tpc[p] \in {"tu_send", "tu_sending", "tu_done", "tu_error"} =>
                  ~local[p].tasks_lock
            /\ pc[p] = "idle" => ilock # p)
    /\ [][\A p \in Procs :
            (InCall(p) /\ ~InCall(p)') => (~local[p].tasks_lock /\ ilock' # p)]_vars
    /\ \A p \in Procs : WaitsForLock(p) ~> HoldsLock(p)

\* A task_update that has released the lock of the tasks waits in
\* append_message for the lock of the inboxes, which a read_inbox of another
\* process holds.
C40_Witness ==
    \E p \in Procs, q \in Procs :
        /\ tpc[p] = "tu_sending"
        /\ pc[p] = "a_lock"
        /\ ilock = q
        /\ call[q].op = "read"
        /\ ~TasksLockHeld

====
